---- MODULE Spec2Model ----
(***************************************************************************)
(* Model of the indicator-driven trading engine:                           *)
(*   - TradingExecutor (the Strategy Runner), trading_executor.py          *)
(*   - PendingOrderWorker (the queue dispatcher), pending_order_worker.py  *)
(*                                                                         *)
(* The specifications share the variables:                                 *)
(*   SpecQueue    : the pending_orders queue polled by concurrent workers  *)
(*   SpecPoll     : the same with the two statements of a poll apart       *)
(*   SpecDispatch : SpecQueue with the strategy configured in either mode  *)
(*   SpecReclaim  : the queue with worker crashes and the stale reclaim    *)
(*                  (SpecReclaimFair: with the scheduling of the workers)  *)
(*   SpecThread   : start(), stop() and _run_loop of the Worker            *)
(*   SpecLive     : one run of PendingOrderWorker._execute_live_order      *)
(*   SpecGuard    : the head of that run, up to the exchange client        *)
(*   SpecVenue    : the orders that run places, per exchange client        *)
(*   SpecOid      : the client order ids of that run                       *)
(*   SpecRunner   : one strategy's Runner loop, with the Worker's          *)
(*                  dispatches and fills interleaved                       *)
(*   SpecSync     : the position reconciliation of the Worker              *)
(*   SpecExecutor : start_strategy, stop_strategy and the loop threads     *)
(*   SpecLoop     : one loop thread with its status check (SpecLoopFair:   *)
(*                  with the scheduling of the thread)                     *)
(*   SpecRisk     : the server-side stop-loss, take-profit and trailing    *)
(*   SpecTrigger  : the trigger test of the pending signals                *)
(* Times are seconds (time.time()); prices and quantities are integers     *)
(* (fixed-point stand-ins for the floats of the source).                   *)
(***************************************************************************)
EXTENDS Integers, Sequences, FiniteSets, TLC

VARIABLES
    now,             \* int(time.time())
    pending_orders,  \* table pending_orders: sequence of rows, row id = index
    w_pc,            \* per worker thread: "idle" | "claim" | "dispatch"
    w_orders,        \* per worker thread: the batch `orders` of _tick still to visit (row ids)
    w_cur,           \* per worker thread: id of the order inside _dispatch_one (0 = none)
    h_requeues,      \* history: per row id, number of stale requeues applied to it
    h_dispatches,    \* history: per row id, number of _dispatch_one calls started for it
    positions,       \* table qd_strategy_positions of the strategy+symbol: set of rows
    trades,          \* table qd_strategy_trades of the strategy: sequence of rows
    lv,              \* locals of the running _execute_live_order (SpecLive)
    cfg,             \* the strategy's configuration: execution_mode, trade_direction
    signal_dedup,    \* TradingExecutor._signal_dedup[strategy_id]: set of [type, ts, exp]
    r_pc,            \* the Runner's position in its loop: "idle" | "risk" | "execute" | "sleep"
    r_tick,          \* locals of the Runner's current tick
    r_ticks,         \* ticks the Runner has started
    h_origin,        \* history: per pending_orders row, the de-dup key of the signal it came from
    w_requeued,      \* per worker thread: row ids requeued by the UPDATE of its poll in progress
    exch,            \* the venue of the strategy and the positions it holds there
    h_sync,          \* history: the last run of _sync_positions_best_effort; settled = it
                     \* read a list and neither the venue nor the table moved since
    running_strategies, \* TradingExecutor.running_strategies: strategy_id -> thread
    threads,         \* the threads of _run_strategy_loop that are alive: thread -> strategy_id
    strategy_status, \* qd_strategies_trading.status per strategy_id
    h_start,         \* history: the last call of start_strategy
    h_notify         \* history: the last signal-mode dispatch: the order and the
                     \* per-channel results the Notifier returned

workerVars == <<w_pc, w_orders, w_cur, h_requeues, h_dispatches>>
tableVars == <<positions, trades>>
runnerVars == <<cfg, signal_dedup, r_pc, r_tick, r_ticks, h_origin>>
syncVars == <<exch, h_sync>>
executorVars == <<running_strategies, threads, strategy_status, h_start>>
auxVars == <<w_requeued, exch, h_sync, running_strategies, threads, strategy_status, h_start,
             h_notify>>

vars == <<now, pending_orders, w_pc, w_orders, w_cur, h_requeues, h_dispatches,
          positions, trades, lv, cfg, signal_dedup, r_pc, r_tick, r_ticks, h_origin,
          w_requeued, exch, h_sync, running_strategies, threads, strategy_status, h_start,
          h_notify>>

(***************************************************************************)
(* Bounds of the model                                                     *)
(***************************************************************************)
MaxOrders == 2      \* rows ever inserted into pending_orders
ClockStep == 50     \* seconds added by one step of the clock
MaxNow == 200       \* the clock stops here
OrderAmount == 5    \* base quantity of the live order of SpecLive
RefPrice == 10000   \* its reference price, in price ticks
MarketPrice == 10005 \* average price of a market fill, in price ticks
MinBase == 2        \* OKX swap: minSz * ctVal, the smallest tradable base quantity

(***************************************************************************)
(* Program constants                                                       *)
(***************************************************************************)
stale_processing_sec == 90   \* PENDING_ORDER_STALE_SEC default
batch_size == 50             \* PendingOrderWorker.__init__ batch_size
max_attempts_default == 10   \* max_attempts written by _enqueue_pending_order
maker_offset_bps == 2        \* MAKER_OFFSET_BPS default

Workers == {"w1", "w2"}   \* worker threads polling the same table
ExecutionModes == {"signal", "live"}
SignalTypes == {"open_long", "open_short", "add_long", "add_short",
                "reduce_long", "reduce_short", "close_long", "close_short"}
Channels == {"browser", "telegram"}

\* Row ids, the domain of the history variables.
OrderIds == 1..MaxOrders

(***************************************************************************)
(* pending_orders rows                                                     *)
(***************************************************************************)
\* The row INSERTed by TradingExecutor._enqueue_pending_order.
NewPendingOrder(id, signal_type, signal_ts, amount, price, mode, t) ==
    [id |-> id, signal_type |-> signal_type, signal_ts |-> signal_ts,
     amount |-> amount, price |-> price, execution_mode |-> mode,
     status |-> "pending", priority |-> 0, attempts |-> 0,
     max_attempts |-> max_attempts_default,
     created_at |-> t, updated_at |-> t, filled |-> 0, avg_price |-> 0]

\* UPDATE pending_orders SET <fields of upd> WHERE id = id  (no other condition).
UpdateRow(rows, id, upd) ==
    [i \in DOMAIN rows |->
        IF rows[i].id = id
        THEN [f \in DOMAIN rows[i] |-> IF f \in DOMAIN upd THEN upd[f] ELSE rows[i][f]]
        ELSE rows[i]]

\* The WHERE clause of the stale-requeue UPDATE without its test of attempts.
Mutant_IsStaleProcessing(r, t) ==
    /\ r.status = "processing"
    /\ r.updated_at < t - stale_processing_sec

\* The stale-requeue UPDATE at the head of _fetch_pending_orders.
IsStaleProcessing(r, t) ==
    /\ r.status = "processing"
    /\ r.updated_at < t - stale_processing_sec
    /\ r.attempts < r.max_attempts

_requeue_stale(rows, t) ==
    [i \in DOMAIN rows |->
        IF stale_processing_sec > 0 /\ IsStaleProcessing(rows[i], t)
        THEN [rows[i] EXCEPT !.status = "pending", !.updated_at = t]
        ELSE rows[i]]

\* ORDER BY id ASC alone.
Mutant_ComesBefore(r, s) == r.id < s.id

\* ORDER BY priority DESC, id ASC : r comes before s.
ComesBefore(r, s) ==
    \/ r.priority > s.priority
    \/ r.priority = s.priority /\ r.id < s.id

RECURSIVE SortedIds(_)
SortedIds(S) ==
    IF S = {} THEN <<>>
    ELSE LET first == CHOOSE r \in S : \A s \in S \ {r} : ComesBefore(r, s)
         IN <<first.id>> \o SortedIds(S \ {first})

Take(s, n) == IF Len(s) <= n THEN s ELSE SubSeq(s, 1, n)

\* The SELECT of _fetch_pending_orders: eligible rows, ordered, limited.
_select_pending(rows, limit) ==
    Take(SortedIds({rows[i] : i \in {j \in DOMAIN rows :
                        rows[j].status = "pending"
                        /\ rows[j].attempts < rows[j].max_attempts}}), limit)

\* _fetch_pending_orders: requeue stale rows, then SELECT the batch.
_fetch_pending_orders(rows, limit, t) ==
    [rows |-> _requeue_stale(rows, t),
     orders |-> _select_pending(_requeue_stale(rows, t), limit)]

\* _mark_processing without the status condition of its WHERE clause.
Mutant_mark_processing(rows, id, t) ==
    [rows |-> [i \in DOMAIN rows |->
                 IF rows[i].id = id
                 THEN [rows[i] EXCEPT !.status = "processing",
                                      !.attempts = rows[i].attempts + 1,
                                      !.updated_at = t]
                 ELSE rows[i]],
     claimed |-> \E i \in DOMAIN rows : rows[i].id = id]

\* _mark_processing: the compare-and-set claim
\*   UPDATE ... SET status='processing', attempts=attempts+1 WHERE id=%s AND status='pending'
\* and its result, rowcount > 0.
_mark_processing(rows, id, t) ==
    [rows |-> [i \in DOMAIN rows |->
                 IF rows[i].id = id /\ rows[i].status = "pending"
                 THEN [rows[i] EXCEPT !.status = "processing",
                                      !.attempts = rows[i].attempts + 1,
                                      !.updated_at = t]
                 ELSE rows[i]],
     claimed |-> \E i \in DOMAIN rows : rows[i].id = id /\ rows[i].status = "pending"]

\* _mark_sent / _mark_failed: UPDATE ... WHERE id = %s.
_mark_sent(rows, id, filled, avg_price, t) ==
    UpdateRow(rows, id, [status |-> "sent", filled |-> filled,
                         avg_price |-> avg_price, updated_at |-> t])

_mark_failed(rows, id, t) ==
    UpdateRow(rows, id, [status |-> "failed", updated_at |-> t])

\* Signal-mode dispatch of _dispatch_one: the Notifier's per-channel results
\* decide between _mark_sent and _mark_failed.
NotifyResults == UNION {[C -> BOOLEAN] : C \in SUBSET Channels}

\* ok_channels with every attempted channel counted.
Mutant_OkChannels(results) == DOMAIN results

OkChannels(results) == {c \in DOMAIN results : results[c]}

LiveIdle == [pc |-> "none"]

\* The locals of a tick before the tick has set them.
NoTick == [price |-> 0, triggered |-> <<>>, tp_pos |-> <<>>,
           state |-> "flat", selected |-> <<>>]

\* No Runner thread: the values of the Runner's variables in SpecQueue and SpecLive.
RunnerStopped ==
    /\ cfg = [execution_mode |-> "signal", trade_direction |-> "both"]
    /\ signal_dedup = {}
    /\ r_pc = "idle"
    /\ r_tick = NoTick
    /\ r_ticks = 0
    /\ h_origin = <<>>

\* No poll in progress between its UPDATE and its SELECT.
PollIdle == w_requeued = [w \in Workers |-> {}]

Sides == {"long", "short"}

\* No reconciliation has run: a venue without positions.
NoSync == [resp |-> "none", deletes |-> 0, updates |-> 0, settled |-> FALSE,
           repeat |-> FALSE, prev_writes |-> 0, tick |-> 0]

SyncIdle ==
    /\ exch = [venue |-> "crypto_swap", qty |-> [s \in Sides |-> 0]]
    /\ h_sync = NoSync

NoStart == [strategy_id |-> 0, result |-> FALSE, counted |-> 0, live |-> 0, tick |-> 0]

\* A TradingExecutor on which start_strategy was never called.
ExecutorIdle ==
    /\ running_strategies = <<>>
    /\ threads = <<>>
    /\ strategy_status = <<>>
    /\ h_start = NoStart

\* The variables that only the other specifications move.
NoNotify == [id |-> 0, results |-> <<>>]

NotifyIdle == h_notify = NoNotify

AuxIdle == PollIdle /\ SyncIdle /\ ExecutorIdle /\ NotifyIdle

(***************************************************************************)
(* Positions and trades                                                    *)
(***************************************************************************)
Max(a, b) == IF a >= b THEN a ELSE b
Min(a, b) == IF a <= b THEN a ELSE b

SideOf(signal_type) ==
    IF signal_type \in {"open_long", "add_long", "reduce_long", "close_long"}
    THEN "long" ELSE "short"

RowsOfSide(rows, side) == {r \in rows : r.side = side}

\* TradingExecutor._update_position: INSERT ... ON CONFLICT(strategy_id, symbol, side)
\* DO UPDATE SET size, entry_price.
_update_position(rows, side, size, entry_price) ==
    (rows \ RowsOfSide(rows, side)) \cup
        {[side |-> side, size |-> size, entry_price |-> entry_price]}

\* TradingExecutor._close_position: DELETE ... WHERE strategy_id, symbol, side.
_close_position(rows, side) == rows \ RowsOfSide(rows, side)

\* The entry price of the fill alone.
Mutant_WeightedEntry(old_size, old_entry, amount, price) == price

\* entry price after adding `amount` at `price` to a row of old_size at old_entry
WeightedEntry(old_size, old_entry, amount, price) ==
    ((old_size * old_entry) + (amount * price)) \div (old_size + amount)

\* live_trading.records.apply_fill_to_local_position, by the row of the fill's side:
\*   open_/add_  : create the row, or add the fill at the weighted average entry
\*   reduce_     : size -= fill, entry unchanged; delete when <= 0.001 of the old size
\*   close_      : delete the row
apply_fill_to_local_position(rows, signal_type, filled, avg_price) ==
    LET side == SideOf(signal_type)
        old == RowsOfSide(rows, side)
        o == CHOOSE r \in old : TRUE
    IN IF signal_type \in {"open_long", "open_short", "add_long", "add_short"}
       THEN IF old = {}
            THEN _update_position(rows, side, filled, avg_price)
            ELSE _update_position(rows, side, o.size + filled,
                                  WeightedEntry(o.size, o.entry_price, filled, avg_price))
       ELSE IF old = {} THEN rows
       ELSE IF signal_type \in {"close_long", "close_short"}
            THEN _close_position(rows, side)
       ELSE IF Max(0, o.size - filled) * 1000 <= o.size
            THEN _close_position(rows, side)
            ELSE _update_position(rows, side, Max(0, o.size - filled), o.entry_price)

\* records.record_trade / TradingExecutor._record_trade: one INSERT.
record_trade(rows, signal_type, price, amount) ==
    Append(rows, [type |-> signal_type, price |-> price, amount |-> amount])

(***************************************************************************)
(* PendingOrderWorker._execute_live_order                                  *)
(***************************************************************************)
ErrorKinds == {"LiveTradingError", "Exception"}

\* _signal_to_side_pos_reduce: the order side of a signal type.
_signal_to_side(signal_type) ==
    IF signal_type \in {"open_long", "add_long", "close_short", "reduce_short"}
    THEN "buy" ELSE "sell"

\* use_limit_first
UseLimitFirst(order_mode) ==
    order_mode \in {"maker", "limit", "limit_first", "maker_then_market"}

\* limit_price = ref_price * (1 -/+ maker_offset), maker_offset = bps / 10000
LimitPrice(side, ref_price) ==
    IF side = "buy"
    THEN (ref_price * (10000 - maker_offset_bps)) \div 10000
    ELSE (ref_price * (10000 + maker_offset_bps)) \div 10000

\* _apply_fill: a fill counts only with a quantity > 0 and a price > 0.
_apply_fill(acc, filled_qty, avg_px) ==
    IF filled_qty > 0 /\ avg_px > 0
    THEN [total_base |-> acc.total_base + filled_qty,
          total_quote |-> acc.total_quote + filled_qty * avg_px]
    ELSE acc

\* _current_avg
_current_avg(total_base, total_quote) ==
    IF total_base > 0 THEN total_quote \div total_base ELSE 0

\* OKX swap tail guard: a remainder below min_base * 0.999999 is not chased.
TailGuard(remaining, okx_swap, min_base) ==
    IF remaining > 0 /\ okx_swap /\ min_base > 0
       /\ remaining * 1000000 < min_base * 999999
    THEN 0 ELSE remaining

\* "Cancel if not fully filled": remaining > amount * 0.001
NeedsCancel(remaining, amount) == remaining * 1000 > Max(0, amount)

\* The market phase's handlers without the test of prior fills.
Mutant_market_error_outcome(kind, total_base) ==
    IF kind = "LiveTradingError" THEN "partial_success" ELSE "failed"

\* The market phase's two exception handlers:
\*   except LiveTradingError: partial success if total_base > 0, else failed
\*   except Exception:        failed
_market_error_outcome(kind, total_base) ==
    IF kind = "LiveTradingError" /\ total_base > 0 THEN "partial_success" ELSE "failed"

\* "Build final result": the fill written to the queue row and settled.
FinalFill(total_base, total_quote, amount, ref_price) ==
    IF total_base <= 0 /\ ref_price > 0
    THEN [filled |-> amount, avg_price |-> ref_price]
    ELSE [filled |-> total_base, avg_price |-> _current_avg(total_base, total_quote)]

\* _dispatch_one, the mode it branches on: the row's execution_mode, upgraded to
\* live when the row is not live and the strategy is configured live now.
dispatch_mode(row_mode, configured_mode) ==
    IF row_mode # "live" /\ configured_mode = "live" THEN "live" ELSE row_mode

(***************************************************************************)
(* SpecQueue: the queue and its workers                                    *)
(***************************************************************************)
InitQueue ==
    /\ now = 0
    /\ pending_orders = <<>>
    /\ w_pc = [w \in Workers |-> "idle"]
    /\ w_orders = [w \in Workers |-> <<>>]
    /\ w_cur = [w \in Workers |-> 0]
    /\ h_requeues = [i \in OrderIds |-> 0]
    /\ h_dispatches = [i \in OrderIds |-> 0]
    /\ AuxIdle
    /\ positions = {}
    /\ trades = <<>>
    /\ lv = LiveIdle
    /\ RunnerStopped

\* A Runner inserts an order (TradingExecutor._enqueue_pending_order's INSERT).
Queue_Insert ==
    /\ Len(pending_orders) < MaxOrders
    /\ \E mode \in ExecutionModes :
          pending_orders' = Append(pending_orders,
              NewPendingOrder(Len(pending_orders) + 1, "open_long", now, 5, 100, mode, now))
    /\ UNCHANGED <<auxVars, now, workerVars, tableVars, lv, runnerVars>>

\* time passes
Clock ==
    /\ now + ClockStep <= MaxNow
    /\ now' = now + ClockStep
    /\ UNCHANGED <<auxVars, pending_orders, workerVars, tableVars, lv, runnerVars>>

\* _tick, first statement: _fetch_pending_orders (stale requeue, then SELECT).
Worker_Fetch(w) ==
    /\ w_pc[w] = "idle"
    /\ LET f == _fetch_pending_orders(pending_orders, batch_size, now)
       IN /\ pending_orders' = f.rows
          /\ h_requeues' = [i \in OrderIds |->
                IF i \in DOMAIN pending_orders /\ f.rows[i] # pending_orders[i]
                THEN h_requeues[i] + 1 ELSE h_requeues[i]]
          /\ w_orders' = [w_orders EXCEPT ![w] = f.orders]
          /\ w_pc' = [w_pc EXCEPT ![w] = IF f.orders = <<>> THEN "idle" ELSE "claim"]
    /\ UNCHANGED <<auxVars, now, w_cur, h_dispatches, tableVars, lv, runnerVars>>

\* _tick, loop body up to the call of _dispatch_one: _mark_processing on the
\* next order of the batch; `continue` when the claim fails.
Worker_MarkProcessing(w) ==
    /\ w_pc[w] = "claim"
    /\ w_orders[w] # <<>>
    /\ LET oid == Head(w_orders[w])
           m == _mark_processing(pending_orders, oid, now)
       IN /\ pending_orders' = m.rows
          /\ w_orders' = [w_orders EXCEPT ![w] = Tail(w_orders[w])]
          /\ IF m.claimed
             THEN /\ w_pc' = [w_pc EXCEPT ![w] = "dispatch"]
                  /\ w_cur' = [w_cur EXCEPT ![w] = oid]
                  /\ h_dispatches' = [h_dispatches EXCEPT ![oid] = @ + 1]
             ELSE /\ w_pc' = [w_pc EXCEPT ![w] =
                                IF Tail(w_orders[w]) = <<>> THEN "idle" ELSE "claim"]
                  /\ UNCHANGED <<w_cur, h_dispatches>>
    /\ UNCHANGED <<auxVars, now, h_requeues, tableVars, lv, runnerVars>>

\* The end of _dispatch_one for a signal-mode order: sent iff some channel
\* reports ok, else failed.
Worker_DispatchSignal(w) ==
    /\ w_pc[w] = "dispatch"
    /\ dispatch_mode(pending_orders[w_cur[w]].execution_mode, cfg.execution_mode) = "signal"
    /\ \E results \in NotifyResults :
          /\ pending_orders' =
                 IF OkChannels(results) # {}
                 THEN _mark_sent(pending_orders, w_cur[w], 0, 0, now)
                 ELSE _mark_failed(pending_orders, w_cur[w], now)
          /\ h_notify' = [id |-> w_cur[w], results |-> results]
    /\ w_cur' = [w_cur EXCEPT ![w] = 0]
    /\ w_pc' = [w_pc EXCEPT ![w] = IF w_orders[w] = <<>> THEN "idle" ELSE "claim"]
    /\ UNCHANGED <<w_requeued, syncVars, executorVars, now, w_orders, h_requeues, h_dispatches,
                   tableVars, lv, runnerVars>>

\* The end of _dispatch_one for a live order: the queue write that
\* _execute_live_order ends with (its phases are the actions of SpecLive).
Worker_DispatchLive(w) ==
    /\ w_pc[w] = "dispatch"
    /\ dispatch_mode(pending_orders[w_cur[w]].execution_mode, cfg.execution_mode) = "live"
    /\ \E ok \in BOOLEAN :
          pending_orders' =
              IF ok
              THEN _mark_sent(pending_orders, w_cur[w],
                              pending_orders[w_cur[w]].amount,
                              pending_orders[w_cur[w]].price, now)
              ELSE _mark_failed(pending_orders, w_cur[w], now)
    /\ w_cur' = [w_cur EXCEPT ![w] = 0]
    /\ w_pc' = [w_pc EXCEPT ![w] = IF w_orders[w] = <<>> THEN "idle" ELSE "claim"]
    /\ UNCHANGED <<auxVars, now, w_orders, h_requeues, h_dispatches, tableVars, lv, runnerVars>>

Fetch == \E w \in Workers : Worker_Fetch(w)
Claim == \E w \in Workers : Worker_MarkProcessing(w)
DispatchSignal == \E w \in Workers : Worker_DispatchSignal(w)
DispatchLive == \E w \in Workers : Worker_DispatchLive(w)

NextQueue ==
    \/ Queue_Insert
    \/ Clock
    \/ Fetch
    \/ Claim
    \/ DispatchSignal
    \/ DispatchLive

SpecQueue == InitQueue /\ [][NextQueue]_vars

(***************************************************************************)
(* SpecThread: start(), stop() and _run_loop of one PendingOrderWorker.    *)
(* lv holds the instance: _stop_event, _thread (0 = None), the threads     *)
(* alive and where each is in _run_loop, the caller of start()/stop(), and *)
(* the history flag `started`: start() returned True and stop() was not    *)
(* called since.                                                           *)
(***************************************************************************)
MaxWorkerThreads == 6     \* threads one instance ever creates
WorkerThreadIds == 1..MaxWorkerThreads

InitThread ==
    /\ now = 0
    /\ pending_orders = <<>>
    /\ w_pc = [w \in Workers |-> "idle"]
    /\ w_orders = [w \in Workers |-> <<>>]
    /\ w_cur = [w \in Workers |-> 0]
    /\ h_requeues = [i \in OrderIds |-> 0]
    /\ h_dispatches = [i \in OrderIds |-> 0]
    /\ AuxIdle
    /\ positions = {}
    /\ trades = <<>>
    /\ RunnerStopped
    /\ lv = [_stop_event |-> FALSE, _thread |-> 0, created |-> 0, alive |-> {},
             at |-> [t \in WorkerThreadIds |-> "none"], caller |-> "idle", started |-> FALSE]

\* start(): under the lock, return True when _thread is alive; else clear the
\* stop event, create and start a thread, return True.
Thread_start ==
    /\ lv.caller = "idle"
    /\ IF lv._thread # 0 /\ lv._thread \in lv.alive
       THEN lv' = [lv EXCEPT !.started = TRUE]
       ELSE /\ lv.created < MaxWorkerThreads
            /\ lv' = [lv EXCEPT !._stop_event = FALSE,
                                 !._thread = lv.created + 1,
                                 !.created = lv.created + 1,
                                 !.alive = lv.alive \cup {lv.created + 1},
                                 !.at[lv.created + 1] = "test",
                                 !.started = TRUE]
    /\ UNCHANGED <<auxVars, now, pending_orders, workerVars, tableVars, runnerVars>>

\* stop(), the part under the lock: set the stop event and read _thread; the
\* caller then joins the thread when it is alive.
Thread_stop ==
    /\ lv.caller = "idle"
    /\ lv' = [lv EXCEPT !._stop_event = TRUE,
                        !.started = FALSE,
                        !.caller = IF lv._thread # 0 /\ lv._thread \in lv.alive
                                   THEN "joining" ELSE "idle"]
    /\ UNCHANGED <<auxVars, now, pending_orders, workerVars, tableVars, runnerVars>>

\* th.join returns because the thread has ended.
Thread_join_ended ==
    /\ lv.caller = "joining"
    /\ lv._thread \notin lv.alive
    /\ lv' = [lv EXCEPT !.caller = "idle"]
    /\ UNCHANGED <<auxVars, now, pending_orders, workerVars, tableVars, runnerVars>>

\* th.join returns on its timeout: the thread is still inside a dispatch that
\* takes longer than timeout_sec.
Thread_join_timeout ==
    /\ lv.caller = "joining"
    /\ lv._thread \in lv.alive
    /\ lv.at[lv._thread] = "dispatch"
    /\ lv' = [lv EXCEPT !.caller = "idle"]
    /\ UNCHANGED <<auxVars, now, pending_orders, workerVars, tableVars, runnerVars>>

\* _run_loop, the loop test: the thread ends when the stop event is set.
run_loop_test(t) ==
    /\ t \in lv.alive
    /\ lv.at[t] = "test"
    /\ lv' = IF lv._stop_event
             THEN [lv EXCEPT !.alive = lv.alive \ {t}, !.at[t] = "ended"]
             ELSE [lv EXCEPT !.at[t] = "tick"]
    /\ UNCHANGED <<auxVars, now, pending_orders, workerVars, tableVars, runnerVars>>

\* _run_loop, the call of _tick up to its first _dispatch_one: a poll that
\* finds no order returns, one that finds orders dispatches them.
run_loop_tick(t) ==
    /\ t \in lv.alive
    /\ lv.at[t] = "tick"
    /\ \E found \in BOOLEAN :
          lv' = [lv EXCEPT !.at[t] = IF found THEN "dispatch" ELSE "sleep"]
    /\ UNCHANGED <<auxVars, now, pending_orders, workerVars, tableVars, runnerVars>>

\* _run_loop, the rest of _tick: the dispatches end, with or without an
\* exception.
run_loop_dispatch(t) ==
    /\ t \in lv.alive
    /\ lv.at[t] = "dispatch"
    /\ lv' = [lv EXCEPT !.at[t] = "sleep"]
    /\ UNCHANGED <<auxVars, now, pending_orders, workerVars, tableVars, runnerVars>>

\* _run_loop, the sleep of poll_interval_sec.
run_loop_sleep(t) ==
    /\ t \in lv.alive
    /\ lv.at[t] = "sleep"
    /\ lv' = [lv EXCEPT !.at[t] = "test"]
    /\ UNCHANGED <<auxVars, now, pending_orders, workerVars, tableVars, runnerVars>>

LoopTest == \E t \in WorkerThreadIds : run_loop_test(t)
LoopTick == \E t \in WorkerThreadIds : run_loop_tick(t)
LoopDispatch == \E t \in WorkerThreadIds : run_loop_dispatch(t)
LoopSleep == \E t \in WorkerThreadIds : run_loop_sleep(t)

NextThread ==
    \/ Thread_start
    \/ Thread_stop
    \/ Thread_join_ended
    \/ Thread_join_timeout
    \/ LoopTest
    \/ LoopTick
    \/ LoopDispatch
    \/ LoopSleep

SpecThread == InitThread /\ [][NextThread]_vars

(***************************************************************************)
(* SpecDispatch: the queue and its workers under either configuration of   *)
(* the strategy: rows enqueued in one mode are dispatched while the        *)
(* strategy is configured in the same or in the other mode.                *)
(***************************************************************************)
InitDispatch ==
    /\ now = 0
    /\ pending_orders = <<>>
    /\ w_pc = [w \in Workers |-> "idle"]
    /\ w_orders = [w \in Workers |-> <<>>]
    /\ w_cur = [w \in Workers |-> 0]
    /\ h_requeues = [i \in OrderIds |-> 0]
    /\ h_dispatches = [i \in OrderIds |-> 0]
    /\ AuxIdle
    /\ positions = {}
    /\ trades = <<>>
    /\ lv = LiveIdle
    /\ cfg \in [execution_mode : ExecutionModes, trade_direction : {"both"}]
    /\ signal_dedup = {}
    /\ r_pc = "idle"
    /\ r_tick = NoTick
    /\ r_ticks = 0
    /\ h_origin = <<>>

SpecDispatch == InitDispatch /\ [][NextQueue]_vars

(***************************************************************************)
(* SpecPoll: the polls statement by statement, on tables of any content    *)
(***************************************************************************)
PollStartTime == 100   \* the clock at the first poll

PollPriorities == {0, 1}
PollStatuses == {"pending", "processing"}
PollAttempts == {1, max_attempts_default}
\* older than the cutoff, and exactly at the cutoff of the first poll
PollUpdatedAt == {0, PollStartTime - stale_processing_sec}

\* A row of the table as the polls find it.
PollRow(id, status, priority, attempts, updated_at) ==
    [NewPendingOrder(id, "open_long", 0, OrderAmount, RefPrice,
                     IF id = 1 THEN "signal" ELSE "live", 0)
        EXCEPT !.status = status, !.priority = priority,
               !.attempts = attempts, !.updated_at = updated_at]

PollRows(id) ==
    {PollRow(id, st, pr, at, up) :
        st \in PollStatuses, pr \in PollPriorities, at \in PollAttempts, up \in PollUpdatedAt}

InitPoll ==
    /\ now = PollStartTime
    /\ pending_orders \in {t \in [OrderIds -> UNION {PollRows(i) : i \in OrderIds}] :
                              \A i \in OrderIds : t[i] \in PollRows(i)}
    /\ w_pc = [w \in Workers |-> "idle"]
    /\ w_orders = [w \in Workers |-> <<>>]
    /\ w_cur = [w \in Workers |-> 0]
    /\ h_requeues = [i \in OrderIds |-> 0]
    /\ h_dispatches = [i \in OrderIds |-> 0]
    /\ positions = {}
    /\ trades = <<>>
    /\ lv = LiveIdle
    /\ RunnerStopped
    /\ PollIdle
    /\ SyncIdle
    /\ NotifyIdle
    /\ ExecutorIdle

\* _fetch_pending_orders, first statement: the stale-requeue UPDATE and its commit.
Poll_Requeue(w) ==
    /\ w_pc[w] = "idle"
    /\ pending_orders' = _requeue_stale(pending_orders, now)
    /\ w_requeued' = [w_requeued EXCEPT ![w] =
          {i \in DOMAIN pending_orders :
              _requeue_stale(pending_orders, now)[i] # pending_orders[i]}]
    /\ h_requeues' = [i \in OrderIds |->
          IF i \in DOMAIN pending_orders
             /\ _requeue_stale(pending_orders, now)[i] # pending_orders[i]
          THEN h_requeues[i] + 1 ELSE h_requeues[i]]
    /\ w_pc' = [w_pc EXCEPT ![w] = "select"]
    /\ UNCHANGED <<now, w_orders, w_cur, h_dispatches, tableVars, lv, runnerVars,
                   syncVars, executorVars, h_notify>>

\* _fetch_pending_orders, second statement: the SELECT on a new connection; then
\* _tick starts on the batch.
Poll_Select(w) ==
    /\ w_pc[w] = "select"
    /\ w_orders' = [w_orders EXCEPT ![w] = _select_pending(pending_orders, batch_size)]
    /\ w_pc' = [w_pc EXCEPT ![w] =
          IF _select_pending(pending_orders, batch_size) = <<>> THEN "idle" ELSE "claim"]
    /\ w_requeued' = [w_requeued EXCEPT ![w] = {}]
    /\ UNCHANGED <<now, pending_orders, w_cur, h_requeues, h_dispatches,
                   tableVars, lv, runnerVars, syncVars, executorVars, h_notify>>

Requeue == \E w \in Workers : Poll_Requeue(w)
Select == \E w \in Workers : Poll_Select(w)

NextPoll ==
    \/ Clock
    \/ Requeue
    \/ Select
    \/ Claim
    \/ DispatchSignal
    \/ DispatchLive

SpecPoll == InitPoll /\ [][NextPoll]_vars

(***************************************************************************)
(* SpecReclaim: one order, polled for ever by workers that may crash       *)
(***************************************************************************)
\* Rows seen from ClockStep seconds later: the timestamps move back, down to 0
\* (the code compares timestamps with the clock only by their distance).
Aged(rows) ==
    [i \in DOMAIN rows |->
        [rows[i] EXCEPT !.created_at = Max(0, @ - ClockStep),
                        !.updated_at = Max(0, @ - ClockStep)]]

InitReclaim ==
    /\ now = 0
    /\ \E mode \in ExecutionModes :
          pending_orders = <<NewPendingOrder(1, "open_long", 0, 5, 100, mode, 0)>>
    /\ w_pc = [w \in Workers |-> "idle"]
    /\ w_orders = [w \in Workers |-> <<>>]
    /\ w_cur = [w \in Workers |-> 0]
    /\ h_requeues = [i \in OrderIds |-> 0]
    /\ h_dispatches = [i \in OrderIds |-> 0]
    /\ AuxIdle
    /\ positions = {}
    /\ trades = <<>>
    /\ lv = LiveIdle
    /\ RunnerStopped

\* Time passes, without end: at MaxNow the clock is kept and the rows age.
Reclaim_Clock ==
    /\ IF now + ClockStep <= MaxNow
       THEN now' = now + ClockStep /\ UNCHANGED pending_orders
       ELSE now' = now /\ pending_orders' = Aged(pending_orders)
    /\ UNCHANGED <<auxVars, workerVars, tableVars, lv, runnerVars>>

\* The worker process dies inside _dispatch_one and is started again: the
\* claimed row stays 'processing', the thread starts with its next poll.
Worker_Crash(w) ==
    /\ w_pc[w] = "dispatch"
    /\ w_pc' = [w_pc EXCEPT ![w] = "idle"]
    /\ w_orders' = [w_orders EXCEPT ![w] = <<>>]
    /\ w_cur' = [w_cur EXCEPT ![w] = 0]
    /\ UNCHANGED <<auxVars, now, pending_orders, h_requeues, h_dispatches, tableVars, lv,
                   runnerVars>>

Crash == \E w \in Workers : Worker_Crash(w)

NextReclaim ==
    \/ Reclaim_Clock
    \/ Fetch
    \/ Claim
    \/ DispatchSignal
    \/ DispatchLive
    \/ Crash

SpecReclaim == InitReclaim /\ [][NextReclaim]_vars

\* The scheduling of _run_loop: time passes, every worker thread goes on
\* polling and claiming, and a dispatch ends or the process dies in it.
SpecReclaimFair ==
    /\ SpecReclaim
    /\ WF_vars(Reclaim_Clock)
    /\ \A w \in Workers :
          /\ WF_vars(Worker_Fetch(w))
          /\ WF_vars(Worker_MarkProcessing(w))
          /\ WF_vars(Worker_DispatchSignal(w) \/ Worker_DispatchLive(w) \/ Worker_Crash(w))

(***************************************************************************)
(* SpecLive: one claimed live order executed by _execute_live_order        *)
(***************************************************************************)
LiveSignalTypes == {"open_long", "close_long", "open_short"}
OrderModes == {"maker", "market"}

InitLive ==
    /\ now = 0
    /\ w_pc = [w \in Workers |-> "idle"]
    /\ w_orders = [w \in Workers |-> <<>>]
    /\ w_cur = [w \in Workers |-> 0]
    /\ h_requeues = [i \in OrderIds |-> 0]
    /\ h_dispatches = [i \in OrderIds |-> 0]
    /\ AuxIdle
    /\ trades = <<>>
    /\ RunnerStopped
    /\ \E st \in LiveSignalTypes, amount \in {0, OrderAmount}, ref_price \in {0, RefPrice},
          order_mode \in OrderModes, okx_swap \in BOOLEAN :
          /\ pending_orders =
                <<[NewPendingOrder(1, st, 0, amount, ref_price, "live", 0)
                      EXCEPT !.status = "processing", !.attempts = 1]>>
          /\ positions = IF st = "close_long"
                         THEN {[side |-> "long", size |-> OrderAmount, entry_price |-> RefPrice]}
                         ELSE {}
          /\ lv = [pc |-> "start", order_id |-> 1, signal_type |-> st,
                   amount |-> amount, ref_price |-> ref_price,
                   order_mode |-> order_mode, okx_swap |-> okx_swap,
                   total_base |-> 0, total_quote |-> 0, remaining |-> 0,
                   limit_filled |-> 0, limit_error |-> "none", limit_cancel |-> FALSE,
                   tail_guard |-> FALSE, market_placed |-> 0, market_error |-> "none",
                   reported |-> 0, limit_resting |-> 0, venue_filled |-> 0,
                   positions0 |-> IF st = "close_long"
                                  THEN {[side |-> "long", size |-> OrderAmount,
                                         entry_price |-> RefPrice]}
                                  ELSE {}]

\* remaining = amount; invalid_amount guard; choice of the first phase.
Live_Start ==
    /\ lv.pc = "start"
    /\ IF lv.amount <= 0
       THEN /\ pending_orders' = _mark_failed(pending_orders, lv.order_id, now)
            /\ lv' = [lv EXCEPT !.pc = "done"]
       ELSE /\ lv' = [lv EXCEPT !.remaining = lv.amount,
                                !.pc = IF UseLimitFirst(lv.order_mode)
                                       THEN "maker" ELSE "market"]
            /\ UNCHANGED pending_orders
    /\ UNCHANGED <<auxVars, now, workerVars, tableVars, runnerVars>>

\* Phase 1 with a fill report: place the limit order, wait_for_fill, _apply_fill,
\* the remainder, the tail guard and the cancel.  A fill report carries an
\* average price exactly when it carries a quantity.  The instrument lookup of the
\* tail guard may fail or carry no minimum (min_base = 0); a failed cancel is
\* swallowed and leaves the unfilled part of the limit order on the book.
Live_MakerFill ==
    /\ lv.pc = "maker"
    /\ lv.ref_price > 0
    /\ \E fq \in 0..lv.amount, px \in {0, LimitPrice(_signal_to_side(lv.signal_type), lv.ref_price)},
          inst_ok \in BOOLEAN, cancel_ok \in BOOLEAN :
          /\ (fq > 0) = (px > 0)
          /\ LET acc == _apply_fill([total_base |-> lv.total_base, total_quote |-> lv.total_quote],
                                    fq, px)
                 rem0 == Max(0, lv.amount - acc.total_base)
                 rem == TailGuard(rem0, lv.okx_swap, IF inst_ok THEN MinBase ELSE 0)
             IN lv' = [lv EXCEPT !.total_base = acc.total_base,
                                 !.total_quote = acc.total_quote,
                                 !.limit_filled = acc.total_base,
                                 !.remaining = rem,
                                 !.tail_guard = (rem # rem0),
                                 !.limit_cancel = NeedsCancel(rem, lv.amount),
                                 !.reported = fq,
                                 !.venue_filled = fq,
                                 !.limit_resting = IF NeedsCancel(rem, lv.amount) /\ cancel_ok
                                                   THEN 0 ELSE lv.amount - fq,
                                 !.pc = "market"]
    /\ UNCHANGED <<auxVars, now, pending_orders, workerVars, tableVars, runnerVars>>

\* Phase 1 raising (missing ref price, place_limit_order fails, or wait_for_fill
\* fails after the order was placed): fall back to market for the full amount.
\* The handlers do not cancel a limit order that was placed.
Live_MakerError ==
    /\ lv.pc = "maker"
    /\ \E kind \in ErrorKinds, placed \in BOOLEAN :
          /\ lv.ref_price <= 0 => (kind = "LiveTradingError" /\ ~placed)
          /\ lv' = [lv EXCEPT !.remaining = lv.amount,
                              !.limit_error = kind,
                              !.limit_resting = IF placed THEN lv.amount ELSE 0,
                              !.pc = "market"]
    /\ UNCHANGED <<auxVars, now, pending_orders, workerVars, tableVars, runnerVars>>

\* Phase 2 skipped (nothing remains) or filled: place the market order for the
\* remainder, wait_for_fill, _apply_fill.
Live_MarketFill ==
    /\ lv.pc = "market"
    /\ IF lv.remaining > 0
       THEN \E fq \in 0..lv.remaining, px \in {0, MarketPrice} :
               (fq > 0) = (px > 0) /\
               LET acc == _apply_fill([total_base |-> lv.total_base,
                                       total_quote |-> lv.total_quote], fq, px)
               IN lv' = [lv EXCEPT !.total_base = acc.total_base,
                                   !.total_quote = acc.total_quote,
                                   !.market_placed = lv.remaining,
                                   !.reported = lv.reported + fq,
                                   !.venue_filled = lv.venue_filled + fq,
                                   !.pc = "final"]
       ELSE lv' = [lv EXCEPT !.pc = "final"]
    /\ UNCHANGED <<auxVars, now, pending_orders, workerVars, tableVars, runnerVars>>

\* Phase 2 raising: the two exception handlers.
Live_MarketError ==
    /\ lv.pc = "market"
    /\ lv.remaining > 0
    /\ \E kind \in ErrorKinds :
          IF _market_error_outcome(kind, lv.total_base) = "partial_success"
          THEN /\ lv' = [lv EXCEPT !.market_error = kind, !.market_placed = lv.remaining,
                                   !.remaining = 0, !.pc = "final"]
               /\ UNCHANGED pending_orders
          ELSE /\ lv' = [lv EXCEPT !.market_error = kind, !.market_placed = lv.remaining,
                                   !.pc = "done"]
               /\ pending_orders' = _mark_failed(pending_orders, lv.order_id, now)
    /\ UNCHANGED <<auxVars, now, workerVars, tableVars, runnerVars>>

\* Final result, _mark_sent, then settlement: apply_fill_to_local_position and
\* record_trade when filled > 0 and avg_price > 0.
Live_Finalize ==
    /\ lv.pc = "final"
    /\ LET f == FinalFill(lv.total_base, lv.total_quote, lv.amount, lv.ref_price)
       IN /\ pending_orders' = _mark_sent(pending_orders, lv.order_id, f.filled, f.avg_price, now)
          /\ IF f.filled > 0 /\ f.avg_price > 0
             THEN /\ positions' = apply_fill_to_local_position(positions, lv.signal_type,
                                                               f.filled, f.avg_price)
                  /\ trades' = record_trade(trades, lv.signal_type, f.avg_price, f.filled)
             ELSE UNCHANGED <<positions, trades>>
    /\ lv' = [lv EXCEPT !.pc = "done"]
    /\ UNCHANGED <<auxVars, now, workerVars, runnerVars>>

\* The venue executes (part of) the limit order that is still on its book.
Venue_LimitFill ==
    /\ lv.pc \in {"market", "final", "done"}
    /\ lv.limit_resting > 0
    /\ \E k \in 1..lv.limit_resting :
          lv' = [lv EXCEPT !.limit_resting = lv.limit_resting - k,
                           !.venue_filled = lv.venue_filled + k]
    /\ UNCHANGED <<auxVars, now, pending_orders, workerVars, tableVars, runnerVars>>

NextLive ==
    \/ Live_Start
    \/ Live_MakerFill
    \/ Live_MakerError
    \/ Live_MarketFill
    \/ Live_MarketError
    \/ Live_Finalize
    \/ Venue_LimitFill

SpecLive == InitLive /\ [][NextLive]_vars

(***************************************************************************)
(* SpecGuard: the head of _execute_live_order, up to the exchange client   *)
(***************************************************************************)
\* cfg.market_category values (the empty value reads as "Crypto").
MarketCategories == {"Crypto", "USStock", "HShare", "Forex", "AShare", "Futures"}

crypto_exchanges ==
    {"binance", "okx", "bitget", "bybit", "coinbaseexchange", "kraken", "kucoin", "gate",
     "bitfinex"}

\* exchange_config.exchange_id, lower-cased: the venues the worker names, a venue
\* it does not name, and no venue.
ExchangeIds == crypto_exchanges \cup {"ibkr", "mt5", "other", ""}

\* The validation without its first test.
Mutant_MarketCategoryError(exchange_id, market_category) ==
    IF exchange_id = "ibkr" /\ market_category \notin {"USStock", "HShare"}
    THEN "ibkr_only_supports_usstock_hshare"
    ELSE IF exchange_id = "mt5" /\ market_category # "Forex"
    THEN "mt5_only_supports_forex"
    ELSE IF exchange_id \in crypto_exchanges /\ market_category # "Crypto"
    THEN "crypto_exchange_only_supports_crypto"
    ELSE ""

\* "Validate market category and exchange_id combination for live trading": the
\* error the order is failed with, "" when the combination passes.
MarketCategoryError(exchange_id, market_category) ==
    IF market_category \in {"AShare", "Futures"}
    THEN "live_trading_not_supported"
    ELSE IF exchange_id = "ibkr" /\ market_category \notin {"USStock", "HShare"}
    THEN "ibkr_only_supports_usstock_hshare"
    ELSE IF exchange_id = "mt5" /\ market_category # "Forex"
    THEN "mt5_only_supports_forex"
    ELSE IF exchange_id \in crypto_exchanges /\ market_category # "Crypto"
    THEN "crypto_exchange_only_supports_crypto"
    ELSE ""

InitGuard ==
    /\ now = 0
    /\ w_pc = [w \in Workers |-> "idle"]
    /\ w_orders = [w \in Workers |-> <<>>]
    /\ w_cur = [w \in Workers |-> 0]
    /\ h_requeues = [i \in OrderIds |-> 0]
    /\ h_dispatches = [i \in OrderIds |-> 0]
    /\ AuxIdle
    /\ positions = {}
    /\ trades = <<>>
    /\ RunnerStopped
    /\ pending_orders =
          <<[NewPendingOrder(1, "open_long", 0, OrderAmount, RefPrice, "live", 0)
                EXCEPT !.status = "processing", !.attempts = 1]>>
    /\ \E exchange_id \in ExchangeIds, market_category \in MarketCategories :
          lv = [pc |-> "validate", order_id |-> 1, exchange_id |-> exchange_id,
                market_category |-> market_category, error |-> "",
                client |-> FALSE, placed |-> FALSE]

\* The guardrails: a rejected combination fails the order and returns.
Guard_Validate ==
    /\ lv.pc = "validate"
    /\ LET error == MarketCategoryError(lv.exchange_id, lv.market_category)
       IN IF error # ""
          THEN /\ pending_orders' = _mark_failed(pending_orders, lv.order_id, now)
               /\ lv' = [lv EXCEPT !.error = error, !.pc = "done"]
          ELSE /\ lv' = [lv EXCEPT !.pc = "client"]
               /\ UNCHANGED pending_orders
    /\ UNCHANGED <<auxVars, now, workerVars, tableVars, runnerVars>>

\* create_client: the client, or create_client_failed.
Guard_CreateClient ==
    /\ lv.pc = "client"
    /\ \E ok \in BOOLEAN :
          IF ok
          THEN /\ lv' = [lv EXCEPT !.client = TRUE, !.pc = "order"]
               /\ UNCHANGED pending_orders
          ELSE /\ pending_orders' = _mark_failed(pending_orders, lv.order_id, now)
               /\ lv' = [lv EXCEPT !.error = "create_client_failed", !.pc = "done"]
    /\ UNCHANGED <<auxVars, now, workerVars, tableVars, runnerVars>>

\* The rest of _execute_live_order with the client: it ends 'failed' (before or
\* after an order went to the venue) or 'sent' after one did.
Guard_Execute ==
    /\ lv.pc = "order"
    /\ \E placed \in BOOLEAN, ok \in BOOLEAN :
          /\ ok => placed
          /\ lv' = [lv EXCEPT !.placed = placed, !.pc = "done"]
          /\ pending_orders' =
                 IF ok
                 THEN _mark_sent(pending_orders, lv.order_id,
                                 pending_orders[lv.order_id].amount,
                                 pending_orders[lv.order_id].price, now)
                 ELSE _mark_failed(pending_orders, lv.order_id, now)
    /\ UNCHANGED <<auxVars, now, workerVars, tableVars, runnerVars>>

NextGuard ==
    \/ Guard_Validate
    \/ Guard_CreateClient
    \/ Guard_Execute

SpecGuard == InitGuard /\ [][NextGuard]_vars

(***************************************************************************)
(* SpecVenue: the orders _execute_live_order submits, by exchange client    *)
(***************************************************************************)
\* The client classes with a branch in the two phases.
SpotClients ==
    {"BinanceSpotClient", "BitgetSpotClient", "CoinbaseExchangeClient", "KrakenClient",
     "KucoinSpotClient", "GateSpotClient", "BitfinexClient"}

FuturesClients ==
    {"BinanceFuturesClient", "BitgetMixClient", "KrakenFuturesClient",
     "KucoinFuturesClient", "GateUsdtFuturesClient", "BitfinexDerivativesClient"}

\* Clients that serve both market types.
UnifiedClients == {"OkxClient", "BybitClient"}

ClientTypes == SpotClients \cup FuturesClients \cup UnifiedClients

\* The branches of phase 1 that pass reduce_only to place_limit_order.
LimitPassesReduceOnly ==
    {"BinanceFuturesClient", "OkxClient", "BitgetMixClient", "BybitClient",
     "KrakenFuturesClient", "KucoinFuturesClient", "GateUsdtFuturesClient"}

\* The branches of phase 2 that pass reduce_only to place_market_order.
MarketPassesReduceOnly ==
    {"BinanceFuturesClient", "OkxClient", "BitgetMixClient", "BybitClient",
     "KrakenFuturesClient", "KucoinFuturesClient", "GateUsdtFuturesClient"}

\* _signal_to_side_pos_reduce: the reduce_only of a signal type.
reduce_only(signal_type) ==
    signal_type \in {"close_long", "reduce_long", "close_short", "reduce_short"}

\* The order a place_limit_order call submits: a branch that does not pass
\* reduce_only leaves it at the default of the client's method.
place_limit_order(client, signal_type, method_default) ==
    [kind |-> "limit", side |-> _signal_to_side(signal_type),
     reduce_only |-> IF client \in LimitPassesReduceOnly
                     THEN reduce_only(signal_type) ELSE method_default]

place_market_order(client, signal_type, method_default) ==
    [kind |-> "market", side |-> _signal_to_side(signal_type),
     reduce_only |-> IF client \in MarketPassesReduceOnly
                     THEN reduce_only(signal_type) ELSE method_default]

\* The client create_client returned for the market type, the signal of the
\* order, the order mode, and the default of reduce_only in the client's methods.
InitVenue ==
    /\ now = 0
    /\ w_pc = [w \in Workers |-> "idle"]
    /\ w_orders = [w \in Workers |-> <<>>]
    /\ w_cur = [w \in Workers |-> 0]
    /\ h_requeues = [i \in OrderIds |-> 0]
    /\ h_dispatches = [i \in OrderIds |-> 0]
    /\ AuxIdle
    /\ positions = {}
    /\ trades = <<>>
    /\ RunnerStopped
    /\ pending_orders = <<>>
    /\ \E client \in ClientTypes, market_type \in {"spot", "swap"},
          signal_type \in SignalTypes, order_mode \in OrderModes,
          method_default \in BOOLEAN :
          /\ client \in SpotClients => market_type = "spot"
          /\ client \in FuturesClients => market_type = "swap"
          /\ market_type = "spot" => SideOf(signal_type) = "long"
          /\ lv = [pc |-> IF UseLimitFirst(order_mode) THEN "maker" ELSE "market",
                   client |-> client, market_type |-> market_type,
                   signal_type |-> signal_type, method_default |-> method_default,
                   submitted |-> <<>>]

\* Phase 1: the limit order is placed, or the phase raises before placing it.
Venue_PlaceLimit ==
    /\ lv.pc = "maker"
    /\ \E placed \in BOOLEAN :
          lv' = [lv EXCEPT
                   !.submitted = IF placed
                                 THEN Append(@, place_limit_order(lv.client, lv.signal_type,
                                                                  lv.method_default))
                                 ELSE @,
                   !.pc = "market"]
    /\ UNCHANGED <<auxVars, now, pending_orders, workerVars, tableVars, runnerVars>>

\* Phase 2: the market order for the remainder, if any remains.
Venue_PlaceMarket ==
    /\ lv.pc = "market"
    /\ \E remains \in BOOLEAN :
          lv' = [lv EXCEPT
                   !.submitted = IF remains
                                 THEN Append(@, place_market_order(lv.client, lv.signal_type,
                                                                   lv.method_default))
                                 ELSE @,
                   !.pc = "final"]
    /\ UNCHANGED <<auxVars, now, pending_orders, workerVars, tableVars, runnerVars>>

NextVenue ==
    \/ Venue_PlaceLimit
    \/ Venue_PlaceMarket

SpecVenue == InitVenue /\ [][NextVenue]_vars

(***************************************************************************)
(* SpecOid: _make_client_oid                                               *)
(***************************************************************************)
\* Strings are sequences of characters.
DigitChars == <<"0", "1", "2", "3", "4", "5", "6", "7", "8", "9">>

\* str(int(n)) for n >= 0
RECURSIVE DecimalString(_)
DecimalString(n) ==
    IF n < 10 THEN <<DigitChars[n + 1]>>
    ELSE DecimalString(n \div 10) \o <<DigitChars[(n % 10) + 1]>>

\* c.isalnum() on the characters that occur
isalnum(c) == c # "_"

\* "".join([c for c in base if c.isalnum()])
RECURSIVE KeepAlnum(_)
KeepAlnum(str) ==
    IF str = <<>> THEN <<>>
    ELSE (IF isalnum(Head(str)) THEN <<Head(str)>> ELSE <<>>) \o KeepAlnum(Tail(str))

okx_max_len == 32

\* base[:n]
Prefix(str, n) == SubSeq(str, 1, Min(n, Len(str)))

\* The phases _execute_live_order asks an id for: "", "lmt", "mkt".
OidPhases == {<<>>, <<"l", "m", "t">>, <<"m", "k", "t">>}

\* _make_client_oid(phase) of the order order_id of strategy strategy_id
_make_client_oid(exchange_id, strategy_id, order_id, phase) ==
    IF exchange_id = "okx"
    THEN LET base == KeepAlnum(<<"q", "d">> \o DecimalString(strategy_id)
                                  \o DecimalString(order_id) \o phase)
         IN Prefix(IF base = <<>>
                   THEN <<"q", "d">> \o DecimalString(strategy_id)
                            \o DecimalString(order_id)
                   ELSE base, okx_max_len)
    ELSE <<"q", "d", "_">> \o DecimalString(strategy_id) \o <<"_">>
             \o DecimalString(order_id)
             \o (IF phase # <<>> THEN <<"_">> \o phase ELSE <<>>)

\* Ids of strategies and of pending orders of the model.
OidStrategyIds == {1, 12}
OidOrderIds == {3, 23}
OidTriples == [strategy_id : OidStrategyIds, order_id : OidOrderIds, phase : OidPhases]

\* Two orders being executed on one venue.
InitOid ==
    /\ now = 0
    /\ w_pc = [w \in Workers |-> "idle"]
    /\ w_orders = [w \in Workers |-> <<>>]
    /\ w_cur = [w \in Workers |-> 0]
    /\ h_requeues = [i \in OrderIds |-> 0]
    /\ h_dispatches = [i \in OrderIds |-> 0]
    /\ AuxIdle
    /\ positions = {}
    /\ trades = <<>>
    /\ RunnerStopped
    /\ pending_orders = <<>>
    /\ \E exchange_id \in {"okx", "binance"}, a \in OidTriples, b \in OidTriples :
          lv = [pc |-> "make", exchange_id |-> exchange_id, a |-> a, b |-> b,
                oid_a |-> <<>>, oid_b |-> <<>>]

\* The two calls of _make_client_oid.
Oid_Make ==
    /\ lv.pc = "make"
    /\ lv' = [lv EXCEPT
                !.oid_a = _make_client_oid(lv.exchange_id, lv.a.strategy_id,
                                           lv.a.order_id, lv.a.phase),
                !.oid_b = _make_client_oid(lv.exchange_id, lv.b.strategy_id,
                                           lv.b.order_id, lv.b.phase),
                !.pc = "done"]
    /\ UNCHANGED <<auxVars, now, pending_orders, workerVars, tableVars, runnerVars>>

NextOid == Oid_Make

SpecOid == InitOid /\ [][NextOid]_vars

(***************************************************************************)
(* The Strategy Runner: configuration and pure functions                   *)
(***************************************************************************)
\* Bounds of the Runner model
TimeframeSec == 60       \* timeframe_seconds of the strategy
Leverage == 2            \* leverage of the strategy (market_type swap)
InitialCapital == 10000  \* initial_capital
StopLossPct == 10        \* trading_config stop_loss_pct, percent of margin
TakeProfitPct == 10      \* trading_config take_profit_pct, percent of margin
BasePrice == 100         \* lowest price level; the close of the last closed candle
PriceStep == 10          \* distance to the other price level
MaxTicks == 2            \* ticks of the Runner
MaxSignals == 2          \* signals returned by one indicator run
MaxRunnerOrders == 2     \* rows the Runner inserts into pending_orders

\* Program constants of the Runner
tick_interval_sec == 10      \* STRATEGY_TICK_INTERVAL_SEC default
cooldown_sec == 30           \* _enqueue_pending_order cooldown
dedup_min_ttl_sec == 120     \* floor of the de-dup TTL
open_position_size == 8      \* indicator default position_size 0.08, in percent
add_position_size == 6       \* indicator default position_size 0.06 of add_*, in percent
reduce_position_size == 10   \* indicator default reduce size 0.1, in percent
default_position_size == 5   \* _execute_signal default position_size 0.05, in percent

MarketType == "swap"
TradeDirections == {"long", "short", "both"}
PriceLevels == {BasePrice, BasePrice + PriceStep}
SleepTicks == {1, 3}     \* tick intervals between two ticks that got a price
StartTime == 2 * TimeframeSec

\* candle start of time t:  int(now_ts // tf) * tf
CandleTs(t) == (t \div TimeframeSec) * TimeframeSec

\* _get_current_positions: the rows of the strategy+symbol as a list; the query
\* has no ORDER BY, so every order of the rows is a possible result.
_get_current_positions(rows) ==
    {s \in [1..Cardinality(rows) -> rows] :
        \A i, j \in 1..Cardinality(rows) : s[i] = s[j] => i = j}

\* _position_state: the side of the first row, 'flat' without rows.
_position_state(plist) ==
    IF plist = <<>> THEN "flat"
    ELSE IF plist[1].side \in {"long", "short"} THEN plist[1].side
    ELSE "flat"

\* _is_signal_allowed that lets open_* through in every state.
Mutant_is_signal_allowed(state, signal_type) ==
    CASE state = "flat" -> signal_type \in {"open_long", "open_short"}
      [] state = "long" -> signal_type \in {"open_long", "add_long", "reduce_long",
                                            "close_long"}
      [] state = "short" -> signal_type \in {"open_short", "add_short", "reduce_short",
                                             "close_short"}
      [] OTHER -> FALSE

\* _is_signal_allowed: the strict state machine.
_is_signal_allowed(state, signal_type) ==
    CASE state = "flat" -> signal_type \in {"open_long", "open_short"}
      [] state = "long" -> signal_type \in {"add_long", "reduce_long", "close_long"}
      [] state = "short" -> signal_type \in {"add_short", "reduce_short", "close_short"}
      [] OTHER -> FALSE

\* _signal_priority without the rank of close_* below the others.
Mutant_signal_priority(signal_type) ==
    CASE signal_type \in {"close_long", "close_short"} -> 3
      [] signal_type \in {"reduce_long", "reduce_short"} -> 1
      [] signal_type \in {"open_long", "open_short"} -> 2
      [] signal_type \in {"add_long", "add_short"} -> 0
      [] OTHER -> 99

\* _signal_priority: lower value = higher priority.
_signal_priority(signal_type) ==
    CASE signal_type \in {"close_long", "close_short"} -> 0
      [] signal_type \in {"reduce_long", "reduce_short"} -> 1
      [] signal_type \in {"open_long", "open_short"} -> 2
      [] signal_type \in {"add_long", "add_short"} -> 3
      [] OTHER -> 99

\* Python's order of the signal type strings.
TypeOrder == <<"add_long", "add_short", "close_long", "close_short",
               "open_long", "open_short", "reduce_long", "reduce_short">>

StrRank(signal_type) == CHOOSE i \in DOMAIN TypeOrder : TypeOrder[i] = signal_type

\* The sort key (priority, int(timestamp), str(type)): a strictly before b.
SortKeyLess(a, b) ==
    LET pa == _signal_priority(a.type)
        pb == _signal_priority(b.type)
    IN \/ pa < pb
       \/ pa = pb /\ a.timestamp < b.timestamp
       \/ pa = pb /\ a.timestamp = b.timestamp /\ StrRank(a.type) < StrRank(b.type)

RemoveAt(s, i) == SubSeq(s, 1, i - 1) \o SubSeq(s, i + 1, Len(s))

\* sorted(candidates, key=...): stable, the first of the least elements leads.
RECURSIVE SortCandidates(_)
SortCandidates(s) ==
    IF s = <<>> THEN <<>>
    ELSE LET i == CHOOSE k \in DOMAIN s :
                     /\ \A j \in DOMAIN s : ~SortKeyLess(s[j], s[k])
                     /\ \A j \in 1..(k - 1) : SortKeyLess(s[k], s[j])
         IN <<s[i]>> \o SortCandidates(RemoveAt(s, i))

FilterSeq(s, Keep(_)) ==
    LET F[i \in 0..Len(s)] ==
            IF i = 0 THEN <<>>
            ELSE IF Keep(s[i]) THEN Append(F[i - 1], s[i]) ELSE F[i - 1]
    IN F[Len(s)]

\* candidates: the triggered signals allowed by the state, restricted to the
\* trade direction when flat.
Candidates(triggered, state, trade_direction) ==
    LET allowed(s) == _is_signal_allowed(state, s.type)
        dir(s) == \/ state # "flat"
                  \/ trade_direction = "both"
                  \/ trade_direction = "long" /\ s.type = "open_long"
                  \/ trade_direction = "short" /\ s.type = "open_short"
    IN FilterSeq(FilterSeq(triggered, allowed), dir)

\* _should_skip_signal_once_per_candle that never finds the key reserved.
Mutant_should_skip_signal_once_per_candle(bucket, signal_type, signal_ts, tf, t) ==
    [skip |-> FALSE,
     bucket |-> {e \in bucket : e.exp > t /\ ~(e.type = signal_type /\ e.ts = signal_ts)}
                    \cup {[type |-> signal_type, ts |-> signal_ts,
                           exp |-> t + Max(tf * 2, dedup_min_ttl_sec)]}]

\* _should_skip_signal_once_per_candle: drop the expired keys; skip when the key
\* is reserved and not expired, else reserve it until now + ttl.
_should_skip_signal_once_per_candle(bucket, signal_type, signal_ts, tf, t) ==
    LET live == {e \in bucket : e.exp > t}
        hit == \E e \in live : e.type = signal_type /\ e.ts = signal_ts
    IN [skip |-> hit,
        bucket |-> IF hit THEN live
                   ELSE {e \in live : ~(e.type = signal_type /\ e.ts = signal_ts)}
                            \cup {[type |-> signal_type, ts |-> signal_ts,
                                   exp |-> t + Max(tf * 2, dedup_min_ttl_sec)]}]

\* The selection loop that keeps every candidate the de-dup does not skip.
RECURSIVE Mutant_SelectSignal(_, _, _, _)
Mutant_SelectSignal(candidates, bucket, tf, t) ==
    IF candidates = <<>> THEN [selected |-> <<>>, bucket |-> bucket]
    ELSE LET d == _should_skip_signal_once_per_candle(
                      bucket, Head(candidates).type, Head(candidates).timestamp, tf, t)
             rest == Mutant_SelectSignal(Tail(candidates), d.bucket, tf, t)
         IN IF d.skip THEN rest
            ELSE [selected |-> <<Head(candidates)>> \o rest.selected,
                  bucket |-> rest.bucket]

\* The selection loop: the first candidate the de-dup does not skip, then break.
\* `selected` is None (<<>>) or one signal.
RECURSIVE SelectSignal(_, _, _, _)
SelectSignal(candidates, bucket, tf, t) ==
    IF candidates = <<>> THEN [selected |-> <<>>, bucket |-> bucket]
    ELSE LET d == _should_skip_signal_once_per_candle(
                      bucket, Head(candidates).type, Head(candidates).timestamp, tf, t)
         IN IF d.skip THEN SelectSignal(Tail(candidates), d.bucket, tf, t)
            ELSE [selected |-> <<Head(candidates)>>, bucket |-> d.bucket]

(***************************************************************************)
(* The Strategy Runner: signals of a tick                                  *)
(***************************************************************************)
Signal(type, timestamp, trigger_price, position_size) ==
    [type |-> type, timestamp |-> timestamp,
     trigger_price |-> trigger_price, position_size |-> position_size]

\* The columns of the indicator frame in the order the Runner reads them.
EmitOrder == <<"open_long", "close_long", "open_short", "close_short",
               "add_long", "add_short", "reduce_long", "reduce_short">>

EmitRank(signal_type) == CHOOSE i \in DOMAIN EmitOrder : EmitOrder[i] = signal_type

\* The columns the strategy's indicator script fills.
IndicatorTypes == {"open_long", "close_long", "open_short", "add_long", "reduce_long"}

\* position_size the indicator attaches to a signal of a type.
IndicatorPositionSize(signal_type) ==
    CASE signal_type \in {"open_long", "open_short"} -> open_position_size
      [] signal_type \in {"add_long", "add_short"} -> add_position_size
      [] signal_type \in {"reduce_long", "reduce_short"} -> reduce_position_size
      [] OTHER -> 0

\* Signals _execute_indicator_with_prices can return at time t: any type on the
\* last closed candle (trigger price its close) or on the forming candle
\* (trigger price the current price).
IndicatorUniverse(t, price) ==
    {Signal(ty, ts, IF ts = CandleTs(t) THEN price ELSE BasePrice,
            IndicatorPositionSize(ty)) :
        ty \in IndicatorTypes, ts \in {CandleTs(t) - TimeframeSec, CandleTs(t)}}

\* pending_signals is filled candle by candle, latest first, column by column.
EmittedBefore(a, b) ==
    \/ a.timestamp > b.timestamp
    \/ a.timestamp = b.timestamp /\ EmitRank(a.type) < EmitRank(b.type)

\* The lists of at most n signals, one per (type, timestamp), in emission order.
RECURSIVE IndicatorOutputs(_, _)
IndicatorOutputs(U, n) ==
    IF n = 0 THEN {<<>>}
    ELSE LET shorter == IndicatorOutputs(U, n - 1)
         IN shorter \cup
            UNION {{Append(s, e) : e \in {u \in U : s = <<>> \/ EmittedBefore(s[Len(s)], u)}} :
                      s \in shorter}

\* Signal expiration: kept while younger than two timeframes.
NotExpired(s, t) == s.timestamp = 0 \/ (t - s.timestamp) < TimeframeSec * 2

ExitTriggerMode == "immediate"   \* trading_config exit_trigger_mode default
EntryTriggerMode == "price"      \* trading_config entry_trigger_mode default

\* The trigger test with the price test of the entries left out.
Mutant_IsTriggered(s, current_price) ==
    \/ s.type \in {"open_long", "open_short", "add_long", "add_short"}
    \/ s.type \in {"close_long", "close_short"} /\ ExitTriggerMode = "immediate"
    \/ s.trigger_price <= 0

\* The trigger test of one pending signal at the current price.
IsTriggered(s, current_price) ==
    \/ s.type \in {"close_long", "close_short"} /\ ExitTriggerMode = "immediate"
    \/ s.type \in {"open_long", "open_short", "add_long", "add_short"}
          /\ EntryTriggerMode = "immediate"
    \/ IF s.trigger_price > 0
       THEN \/ s.type \in {"open_long", "close_short", "add_long"}
                 /\ current_price >= s.trigger_price
            \/ s.type \in {"open_short", "close_long", "add_short"}
                 /\ current_price <= s.trigger_price
       ELSE TRUE

\* triggered_signals of the indicator's pending_signals.
TriggeredSignals(pending_signals, current_price, t) ==
    LET valid(s) == NotExpired(s, t)
        hit(s) == IsTriggered(s, current_price)
    IN FilterSeq(FilterSeq(pending_signals, valid), hit)

\* _to_ratio, as a percent number: values above 1 are percents, values up to 1
\* are ratios; the result is clamped to 0..100.
_to_ratio(v) ==
    LET x == IF v > 1 THEN v ELSE v * 100
    IN IF x < 0 THEN 0 ELSE IF x > 100 THEN 100 ELSE x

\* _server_side_stop_loss_signal on the position list it read: the margin
\* percentage divided by the leverage is the price move of the stop line.
_server_side_stop_loss_signal(plist, current_price, t) ==
    IF plist = <<>> THEN <<>>
    ELSE LET pos == plist[1]
             lev == Max(1, Leverage)
             sl == IF StopLossPct > 1 THEN StopLossPct ELSE StopLossPct * 100
         IN IF pos.entry_price <= 0 \/ current_price <= 0 \/ StopLossPct <= 0 THEN <<>>
            ELSE IF pos.side = "long"
                    /\ current_price * 100 * lev <= pos.entry_price * (100 * lev - sl)
            THEN <<Signal("close_long", CandleTs(t), 0, 0)>>
            ELSE IF pos.side = "short"
                    /\ current_price * 100 * lev >= pos.entry_price * (100 * lev + sl)
            THEN <<Signal("close_short", CandleTs(t), 0, 0)>>
            ELSE <<>>

\* _server_side_take_profit_or_trailing_signal on the position list it read
\* (trailing_enabled off): the tracking upsert of the row it read, with that
\* row's size and entry price, then the fixed take-profit test.
_server_side_take_profit_or_trailing_signal(rows, plist, current_price, t) ==
    IF plist = <<>> THEN [rows |-> rows, signal |-> <<>>]
    ELSE LET pos == plist[1]
             lev == Max(1, Leverage)
             tp == _to_ratio(TakeProfitPct)
         IN IF pos.entry_price <= 0 \/ current_price <= 0
            THEN [rows |-> rows, signal |-> <<>>]
            ELSE [rows |-> _update_position(rows, pos.side, pos.size, pos.entry_price),
                  signal |->
                     IF TakeProfitPct <= 0 THEN <<>>
                     ELSE IF pos.side = "long"
                             /\ current_price * 100 * lev >= pos.entry_price * (100 * lev + tp)
                     THEN <<Signal("close_long", CandleTs(t), 0, 0)>>
                     ELSE IF pos.side = "short"
                             /\ current_price * 100 * lev <= pos.entry_price * (100 * lev - tp)
                     THEN <<Signal("close_short", CandleTs(t), 0, 0)>>
                     ELSE <<>>]

(***************************************************************************)
(* The Strategy Runner: from a selected signal to the queue and the tables *)
(***************************************************************************)
\* The rows of the DB guard's SELECT ... ORDER BY id DESC LIMIT 1.
LastId(rows, Match(_)) ==
    LET ids == {i \in DOMAIN rows : Match(rows[i])}
    IN IF ids = {} THEN 0 ELSE CHOOSE i \in ids : \A j \in ids : j <= i

\* _enqueue_pending_order: the DB guard (same-candle key for open_*, else
\* in-flight and cooldown per signal type), then the INSERT.  pending_id 0 is
\* None.
_enqueue_pending_order(rows, signal_type, signal_ts, amount, price, mode, t) ==
    LET strict_candle_dedup == signal_ts > 0 /\ signal_type \in {"open_long", "open_short"}
        same_candle(r) == r.signal_type = signal_type /\ r.signal_ts = signal_ts
        same_type(r) == r.signal_type = signal_type
        last_id == IF strict_candle_dedup THEN LastId(rows, same_candle)
                   ELSE LastId(rows, same_type)
        skipped == /\ last_id > 0
                   /\ \/ strict_candle_dedup
                      \/ rows[last_id].status \in {"pending", "processing"}
                      \/ rows[last_id].created_at > 0
                            /\ (t - rows[last_id].created_at) < cooldown_sec
    IN IF skipped THEN [rows |-> rows, pending_id |-> 0]
       ELSE [rows |-> Append(rows, NewPendingOrder(Len(rows) + 1, signal_type, signal_ts,
                                                   amount, price, mode, t)),
             pending_id |-> Len(rows) + 1]

\* _execute_exchange_order: enqueue; success is True whatever the enqueue returned.
_execute_exchange_order(rows, signal_type, signal_ts, amount, ref_price, mode, t) ==
    LET e == _enqueue_pending_order(rows, signal_type, signal_ts, amount, ref_price, mode, t)
    IN [rows |-> e.rows, pending_id |-> e.pending_id, success |-> TRUE]

\* The first row of a side in a position list, as a list of at most one row.
FirstOfSide(plist, side) ==
    LET ids == {i \in DOMAIN plist : plist[i].side = side}
    IN IF ids = {} THEN <<>> ELSE <<plist[CHOOSE i \in ids : \A j \in ids : i <= j]>>

\* _execute_signal on db = [pending_orders, positions, trades, origin] with the
\* position list read by the tick: state guard, sizing, enqueue; in signal mode
\* the fill is then applied to the local tables at once.
_execute_signal(db, plist, s, current_price, mode, t) ==
    LET side == SideOf(s.type)
        old == FirstOfSide(plist, side)
        entry == s.type \in {"open_long", "open_short", "add_long", "add_short"}
        reduce == s.type \in {"reduce_long", "reduce_short"}
        position_size == IF s.position_size <= 0 THEN default_position_size
                         ELSE s.position_size
        entry_amount == IF MarketType = "spot"
                        THEN (InitialCapital * position_size) \div (100 * current_price)
                        ELSE (InitialCapital * position_size * Leverage)
                                 \div (100 * current_price)
        reduce_ratio == IF s.position_size <= 0 THEN reduce_position_size
                        ELSE s.position_size
        promoted == reduce /\ old # <<>> /\ reduce_ratio * 1000 >= 999 * 100
        sig == IF promoted THEN (IF side = "long" THEN "close_long" ELSE "close_short")
               ELSE s.type
        amount == IF entry THEN entry_amount
                  ELSE IF old = <<>> THEN 0
                  ELSE IF reduce /\ ~promoted THEN (old[1].size * reduce_ratio) \div 100
                  ELSE old[1].size
        rejected == \/ ~_is_signal_allowed(_position_state(plist), s.type)
                    \/ MarketType = "spot" /\ side = "short"
                    \/ ~entry /\ (old = <<>> \/ old[1].size <= 0)
                    \/ entry /\ amount <= 0
        order == _execute_exchange_order(db.pending_orders, sig, s.timestamp, amount,
                                         current_price, mode, t)
        queued == [db EXCEPT !.pending_orders = order.rows,
                             !.origin = IF order.pending_id > 0
                                        THEN Append(db.origin, [type |-> s.type,
                                                                ts |-> s.timestamp])
                                        ELSE db.origin]
        new_size == Max(0, old[1].size - amount)
    IN IF rejected THEN db
       ELSE IF mode = "live" THEN queued
       ELSE [queued EXCEPT
               !.trades = record_trade(db.trades, sig, current_price, amount),
               !.positions =
                   IF entry
                   THEN IF old = <<>>
                        THEN _update_position(db.positions, side, amount, current_price)
                        ELSE _update_position(db.positions, side, amount + old[1].size,
                                 WeightedEntry(old[1].size, old[1].entry_price,
                                               amount, current_price))
                   ELSE IF sig \in {"reduce_long", "reduce_short"}
                   THEN IF new_size * 1000 <= old[1].size
                        THEN _close_position(db.positions, side)
                        ELSE _update_position(db.positions, side, new_size,
                                              old[1].entry_price)
                   ELSE _close_position(db.positions, side)]

\* `if selected: _execute_signal(...)` for the selection of the tick.
RECURSIVE ExecuteSelected(_, _, _, _, _, _)
ExecuteSelected(db, plist, selected, current_price, mode, t) ==
    IF selected = <<>> THEN db
    ELSE ExecuteSelected(
             _execute_signal(db, plist, Head(selected),
                             IF Head(selected).trigger_price > 0
                             THEN Head(selected).trigger_price ELSE current_price,
                             mode, t),
             plist, Tail(selected), current_price, mode, t)

(***************************************************************************)
(* SpecRunner: one strategy's Runner loop with the Worker interleaved      *)
(***************************************************************************)
\* The long position a strategy holds when the model starts.
LongRow ==
    [side |-> "long",
     size |-> (InitialCapital * open_position_size * Leverage) \div (100 * BasePrice),
     entry_price |-> BasePrice]

\* The tick before the model starts, for a strategy that was long and whose
\* indicator asked for add_long on the then forming candle: the tables and the
\* de-dup bucket as _execute_signal and the selection loop left them.
SeedTime == StartTime - tick_interval_sec

SeedSignal == Signal("add_long", CandleTs(SeedTime), BasePrice, add_position_size)

SeedDb(mode) ==
    _execute_signal([pending_orders |-> <<>>, positions |-> {LongRow},
                     trades |-> <<>>, origin |-> <<>>],
                    <<LongRow>>, SeedSignal, BasePrice, mode, SeedTime)

SeedBucket ==
    _should_skip_signal_once_per_candle({}, SeedSignal.type, SeedSignal.timestamp,
                                        TimeframeSec, SeedTime).bucket

\* The Runner starts flat with empty tables, or long right after the tick above.
InitRunner ==
    /\ now = StartTime
    /\ w_pc = [w \in Workers |-> "idle"]
    /\ w_orders = [w \in Workers |-> <<>>]
    /\ w_cur = [w \in Workers |-> 0]
    /\ h_requeues = [i \in OrderIds |-> 0]
    /\ h_dispatches = [i \in OrderIds |-> 0]
    /\ AuxIdle
    /\ lv = LiveIdle
    /\ cfg \in [execution_mode : ExecutionModes, trade_direction : TradeDirections]
    /\ \/ /\ pending_orders = <<>>
          /\ positions = {}
          /\ trades = <<>>
          /\ signal_dedup = {}
          /\ h_origin = <<>>
       \/ /\ cfg.trade_direction # "short"
          /\ pending_orders = SeedDb(cfg.execution_mode).pending_orders
          /\ positions = SeedDb(cfg.execution_mode).positions
          /\ trades = SeedDb(cfg.execution_mode).trades
          /\ signal_dedup = SeedBucket
          /\ h_origin = SeedDb(cfg.execution_mode).origin
    /\ r_pc = "idle"
    /\ r_tick = NoTick
    /\ r_ticks = 0

\* The highest_price upsert after an indicator run that reports a new highest
\* price: _update_position for every row of the list read before the run, with
\* that row's size and entry price.
RECURSIVE RefreshHighest(_, _)
RefreshHighest(rows, plist) ==
    IF plist = <<>> THEN rows
    ELSE RefreshHighest(_update_position(rows, Head(plist).side, Head(plist).size,
                                         Head(plist).entry_price),
                        Tail(plist))

\* A tick, first part: the price, the position list for the indicator, the
\* indicator's pending_signals, the highest_price upsert, expiration and
\* trigger test, and the position read of the take-profit function.
Runner_Tick ==
    /\ r_pc = "idle"
    /\ r_ticks < MaxTicks
    /\ \E current_price \in PriceLevels,
          current_pos_list \in _get_current_positions(positions) :
          \E pending_signals \in IndicatorOutputs(IndicatorUniverse(now, current_price),
                                                  MaxSignals),
             refreshed \in {positions, RefreshHighest(positions, current_pos_list)} :
                /\ positions' = refreshed
                /\ \E tp_pos \in _get_current_positions(refreshed) :
                      r_tick' = [price |-> current_price,
                                 triggered |-> TriggeredSignals(pending_signals,
                                                                current_price, now),
                                 tp_pos |-> tp_pos,
                                 state |-> "flat", selected |-> <<>>]
    /\ r_ticks' = r_ticks + 1
    /\ r_pc' = "risk"
    /\ UNCHANGED <<auxVars, now, pending_orders, workerVars, trades, lv, cfg, signal_dedup, h_origin>>

\* A tick, second part: the take-profit function from its upsert on, then the
\* stop-loss function; their signals join triggered_signals.
Runner_Risk ==
    /\ r_pc = "risk"
    /\ LET tp == _server_side_take_profit_or_trailing_signal(
                     positions, r_tick.tp_pos, r_tick.price, now)
       IN /\ positions' = tp.rows
          /\ \E sl_pos \in _get_current_positions(tp.rows) :
                r_tick' = [r_tick EXCEPT !.triggered =
                              r_tick.triggered \o tp.signal
                                  \o _server_side_stop_loss_signal(sl_pos, r_tick.price, now)]
    /\ r_pc' = "execute"
    /\ UNCHANGED <<auxVars, now, pending_orders, workerVars, trades, lv, cfg, signal_dedup,
                   r_ticks, h_origin>>

\* A tick, last part: when a signal is triggered, read the positions, keep the
\* candidates of the state, sort, select through the de-dup, execute the
\* selection.  (_update_positions then refreshes current_price only.)
Runner_Execute ==
    /\ r_pc = "execute"
    /\ IF r_tick.triggered = <<>>
       THEN UNCHANGED <<pending_orders, positions, trades, signal_dedup, r_tick, h_origin>>
       ELSE \E current_positions \in _get_current_positions(positions) :
               LET state == _position_state(current_positions)
                   candidates == SortCandidates(
                       Candidates(r_tick.triggered, state, cfg.trade_direction))
                   sel == SelectSignal(candidates, signal_dedup, TimeframeSec, now)
                   db == ExecuteSelected(
                             [pending_orders |-> pending_orders, positions |-> positions,
                              trades |-> trades, origin |-> h_origin],
                             current_positions, sel.selected, r_tick.price,
                             cfg.execution_mode, now)
               IN /\ Len(db.pending_orders) <= MaxRunnerOrders
                  /\ pending_orders' = db.pending_orders
                  /\ positions' = db.positions
                  /\ trades' = db.trades
                  /\ h_origin' = db.origin
                  /\ signal_dedup' = sel.bucket
                  /\ r_tick' = [r_tick EXCEPT !.state = state, !.selected = sel.selected]
    /\ r_pc' = "sleep"
    /\ UNCHANGED <<auxVars, now, workerVars, lv, cfg, r_ticks>>

\* The sleep at the head of the loop until the next tick that gets a price.
Runner_Sleep ==
    /\ r_pc = "sleep"
    /\ r_ticks < MaxTicks
    /\ \E k \in SleepTicks : now' = now + k * tick_interval_sec
    /\ r_tick' = NoTick
    /\ r_pc' = "idle"
    /\ UNCHANGED <<auxVars, pending_orders, workerVars, tableVars, lv, cfg, signal_dedup,
                   r_ticks, h_origin>>

\* One _tick of the Worker on the first pending order: fetch, claim, dispatch.
\* Signal mode: sent or failed by the notifier.  Live: failed, or sent with the
\* order filled at its price and settled (position, then trade row).
Worker_Process ==
    /\ LET f == _fetch_pending_orders(pending_orders, batch_size, now)
       IN /\ f.orders # <<>>
          /\ LET oid == Head(f.orders)
                 m == _mark_processing(f.rows, oid, now)
                 o == m.rows[oid]
             IN /\ m.claimed
                /\ IF o.execution_mode = "signal"
                   THEN /\ \E results \in NotifyResults :
                              pending_orders' =
                                  IF OkChannels(results) # {}
                                  THEN _mark_sent(m.rows, oid, 0, 0, now)
                                  ELSE _mark_failed(m.rows, oid, now)
                        /\ UNCHANGED tableVars
                   ELSE \E ok \in BOOLEAN :
                           IF ok /\ o.amount > 0 /\ o.price > 0
                           THEN /\ pending_orders' = _mark_sent(m.rows, oid, o.amount,
                                                                o.price, now)
                                /\ positions' = apply_fill_to_local_position(
                                                    positions, o.signal_type, o.amount, o.price)
                                /\ trades' = record_trade(trades, o.signal_type,
                                                          o.price, o.amount)
                           ELSE /\ pending_orders' = _mark_failed(m.rows, oid, now)
                                /\ UNCHANGED tableVars
    /\ UNCHANGED <<auxVars, now, workerVars, lv, runnerVars>>

NextRunner ==
    \/ Runner_Tick
    \/ Runner_Risk
    \/ Runner_Execute
    \/ Runner_Sleep
    \/ Worker_Process

SpecRunner == InitRunner /\ [][NextRunner]_vars

(***************************************************************************)
(* SpecSync: PendingOrderWorker._sync_positions_best_effort                *)
(***************************************************************************)
\* Bounds of the reconciliation model
SmallSize == 1      \* a small position size
LargeSize == 100    \* a large one: a difference of 1 is within 1% of it

SyncLocalSizes == {SmallSize, LargeSize}
SyncExchQtys == {0, SmallSize, LargeSize, LargeSize + 1, LargeSize + 2}

\* What create_client returns for the strategy: one of the swap clients of the
\* elif chain, the MT5 client, or any other (spot) client.
Venues == {"crypto_swap", "mt5", "spot"}

\* What client.get_positions() does: returns the list of positions, returns
\* something that is not the expected list (an error body, None), or raises.
Responses == {"list", "malformed", "exception"}

Abs(x) == IF x >= 0 THEN x ELSE 0 - x

\* exch_qty <= eps
IsFlat(exch_qty) == exch_qty <= 0

\* The size test as a constant.
Mutant_DivergedAlways(local_size, exch_qty) == TRUE

\* local_size <= 0 or abs(exch_qty - local_size) / max(1.0, local_size) > 0.01
Diverged(local_size, exch_qty) ==
    \/ local_size <= 0
    \/ 100 * Abs(exch_qty - local_size) > Max(1, local_size)

\* exch_size for the strategy's symbol: filled from the response when it is the
\* expected list, left empty otherwise (a missing side reads as 0.0).
ExchSnapshot(resp, qty) ==
    IF resp = "list" THEN qty ELSE [s \in Sides |-> 0]

\* Step 3 with rows added for the venue's positions that have no local row.
Mutant_Reconcile(rows, exch_size) ==
    [rows |-> {r \in rows : ~IsFlat(exch_size[r.side])}
              \cup {[side |-> sd, size |-> exch_size[sd], entry_price |-> 0] :
                       sd \in {x \in Sides : RowsOfSide(rows, x) = {}
                                              /\ ~IsFlat(exch_size[x])}},
     deletes |-> Cardinality({r \in rows : IsFlat(exch_size[r.side])}),
     updates |-> 0]

\* Step 3: to_delete_ids and to_update from the local rows and the snapshot,
\* then the DELETEs and UPDATEs by row id in one transaction.
Reconcile(rows, exch_size) ==
    LET to_delete == {r \in rows : IsFlat(exch_size[r.side])}
        to_update == {r \in rows \ to_delete : Diverged(r.size, exch_size[r.side])}
    IN [rows |-> (rows \ (to_delete \cup to_update))
                 \cup {[r EXCEPT !.size = exch_size[r.side]] : r \in to_update},
        deletes |-> Cardinality(to_delete),
        updates |-> Cardinality(to_update)]

\* A run without the execution_mode test.
Mutant_sync_positions_best_effort(rows, mode, venue, resp, qty) ==
    IF \/ rows = {}
       \/ resp = "exception"
       \/ venue # "mt5"
    THEN [rows |-> rows, deletes |-> 0, updates |-> 0]
    ELSE Reconcile(rows, ExchSnapshot(resp, qty))

\* One run for the strategy: no rows -> return; not live -> continue; the
\* snapshot; then the test `isinstance(client, MT5Client)` whose else branch
\* (`continue`) is taken by every other client; then step 3.  An exception
\* anywhere ends the run for the strategy.
_sync_positions_best_effort(rows, mode, venue, resp, qty) ==
    IF \/ rows = {}
       \/ mode # "live"
       \/ resp = "exception"
       \/ venue # "mt5"
    THEN [rows |-> rows, deletes |-> 0, updates |-> 0]
    ELSE Reconcile(rows, ExchSnapshot(resp, qty))

SyncRow(side, size) == [side |-> side, size |-> size, entry_price |-> RefPrice]

InitSync ==
    /\ now = 0
    /\ pending_orders = <<>>
    /\ w_pc = [w \in Workers |-> "idle"]
    /\ w_orders = [w \in Workers |-> <<>>]
    /\ w_cur = [w \in Workers |-> 0]
    /\ h_requeues = [i \in OrderIds |-> 0]
    /\ h_dispatches = [i \in OrderIds |-> 0]
    /\ trades = <<>>
    /\ lv = LiveIdle
    /\ cfg \in [execution_mode : ExecutionModes, trade_direction : {"both"}]
    /\ signal_dedup = {}
    /\ r_pc = "idle"
    /\ r_tick = NoTick
    /\ r_ticks = 0
    /\ h_origin = <<>>
    /\ PollIdle
    /\ ExecutorIdle
    /\ NotifyIdle
    /\ \E long \in {0} \cup SyncLocalSizes, short \in {0} \cup SyncLocalSizes :
          positions = (IF long > 0 THEN {SyncRow("long", long)} ELSE {})
                      \cup (IF short > 0 THEN {SyncRow("short", short)} ELSE {})
    /\ exch \in [venue : Venues, qty : [Sides -> SyncExchQtys]]
    /\ h_sync = NoSync

\* _maybe_sync_positions -> _sync_positions_best_effort, for the one strategy.
Sync_Run ==
    /\ \E resp \in Responses :
          LET run == _sync_positions_best_effort(positions, cfg.execution_mode,
                                                 exch.venue, resp, exch.qty)
          IN /\ positions' = run.rows
             /\ h_sync' = [resp |-> resp, deletes |-> run.deletes, updates |-> run.updates,
                           settled |-> (resp = "list"),
                           repeat |-> (h_sync.settled /\ resp = "list"),
                           prev_writes |-> h_sync.deletes + h_sync.updates,
                           tick |-> 1 - h_sync.tick]
    /\ UNCHANGED <<now, pending_orders, workerVars, trades, lv, runnerVars,
                   w_requeued, exch, executorVars, h_notify>>

\* The position at the venue changes (a fill, a liquidation, a manual close).
Exch_Move ==
    /\ \E sd \in Sides, q \in SyncExchQtys :
          /\ q # exch.qty[sd]
          /\ exch' = [exch EXCEPT !.qty[sd] = q]
    /\ h_sync' = [h_sync EXCEPT !.settled = FALSE]
    /\ UNCHANGED <<now, pending_orders, workerVars, tableVars, lv, runnerVars,
                   w_requeued, executorVars, h_notify>>

\* Another writer of the table: the settlement of a fill that opens a side
\* without a row or closes a side.
Sync_LocalFill ==
    /\ \E st \in {"open_long", "open_short", "close_long", "close_short"} :
          /\ (st \in {"open_long", "open_short"}) = (RowsOfSide(positions, SideOf(st)) = {})
          /\ positions' = apply_fill_to_local_position(positions, st, SmallSize, RefPrice)
    /\ h_sync' = [h_sync EXCEPT !.settled = FALSE]
    /\ UNCHANGED <<now, pending_orders, workerVars, trades, lv, runnerVars,
                   w_requeued, exch, executorVars, h_notify>>

NextSync ==
    \/ Sync_Run
    \/ Exch_Move
    \/ Sync_LocalFill

SpecSync == InitSync /\ [][NextSync]_vars

(***************************************************************************)
(* SpecExecutor: TradingExecutor.start_strategy / stop_strategy            *)
(***************************************************************************)
\* Bounds of the executor model
MaxThreads == 2       \* self.max_threads (STRATEGY_MAX_THREADS)
NumStrategies == 3    \* strategies that can be started
MaxStarts == 4        \* threads created in one behaviour

Strategies == 1 .. NumStrategies

\* Thread.is_alive() of thread t.
is_alive(t) == threads[t].alive

\* The threads that run _run_strategy_loop.
LiveLoops == {t \in DOMAIN threads : is_alive(t)}

\* running_strategies as a map: strategy_id -> thread, 0 for no entry.
Registered(rs) == {sid \in Strategies : rs[sid] # 0}

\* stale_ids removed from the map (start_strategy, under the lock).
DropStale(rs) ==
    [sid \in Strategies |-> IF rs[sid] # 0 /\ ~is_alive(rs[sid]) THEN 0 ELSE rs[sid]]

InitExecutor ==
    /\ now = 0
    /\ pending_orders = <<>>
    /\ w_pc = [w \in Workers |-> "idle"]
    /\ w_orders = [w \in Workers |-> <<>>]
    /\ w_cur = [w \in Workers |-> 0]
    /\ h_requeues = [i \in OrderIds |-> 0]
    /\ h_dispatches = [i \in OrderIds |-> 0]
    /\ positions = {}
    /\ trades = <<>>
    /\ lv = LiveIdle
    /\ cfg = [execution_mode |-> "signal", trade_direction |-> "both"]
    /\ signal_dedup = {}
    /\ r_pc = "idle"
    /\ r_tick = NoTick
    /\ r_ticks = 0
    /\ h_origin = <<>>
    /\ PollIdle
    /\ SyncIdle
    /\ NotifyIdle
    /\ running_strategies = [sid \in Strategies |-> 0]
    /\ threads = <<>>
    /\ strategy_status \in [Strategies -> {"running", "stopped"}]
    /\ h_start = NoStart

\* start_strategy(strategy_id): drop the entries of dead threads, refuse at
\* the cap, refuse a strategy that has an entry, else start a thread and store
\* it.
start_strategy(strategy_id) ==
    /\ Len(threads) < MaxStarts
    /\ LET rs == DropStale(running_strategies)
           counted == Cardinality(Registered(rs))
           ok == counted < MaxThreads /\ rs[strategy_id] = 0
       IN /\ threads' = IF ok
                        THEN Append(threads, [strategy_id |-> strategy_id, alive |-> TRUE])
                        ELSE threads
          /\ running_strategies' = IF ok
                                   THEN [rs EXCEPT ![strategy_id] = Len(threads) + 1]
                                   ELSE rs
          /\ h_start' = [strategy_id |-> strategy_id, result |-> ok, counted |-> counted,
                         live |-> Cardinality(LiveLoops), tick |-> 1 - h_start.tick]
    /\ UNCHANGED <<now, pending_orders, workerVars, tableVars, lv, runnerVars,
                   w_requeued, syncVars, strategy_status, h_notify>>

\* stop_strategy(strategy_id): no entry -> False; else status 'stopped' and the
\* entry removed; the thread goes on until its next look at the status.
stop_strategy(strategy_id) ==
    /\ running_strategies[strategy_id] # 0
    /\ strategy_status' = [strategy_status EXCEPT ![strategy_id] = "stopped"]
    /\ running_strategies' = [running_strategies EXCEPT ![strategy_id] = 0]
    /\ UNCHANGED <<now, pending_orders, workerVars, tableVars, lv, runnerVars,
                   w_requeued, syncVars, threads, h_start, h_notify>>

\* _run_strategy_loop of thread t ends: _is_strategy_running is false at the
\* top of the loop; the finally block removes the entry of its strategy_id.
Loop_Exit(t) ==
    /\ is_alive(t)
    /\ strategy_status[threads[t].strategy_id] # "running"
    /\ threads' = [threads EXCEPT ![t].alive = FALSE]
    /\ running_strategies' = [running_strategies EXCEPT ![threads[t].strategy_id] = 0]
    /\ UNCHANGED <<now, pending_orders, workerVars, tableVars, lv, runnerVars,
                   w_requeued, syncVars, strategy_status, h_start, h_notify>>

\* The caller of a restart: the persisted status is set back to 'running'
\* before start_strategy is called.
Set_Running(strategy_id) ==
    /\ strategy_status[strategy_id] = "stopped"
    /\ strategy_status' = [strategy_status EXCEPT ![strategy_id] = "running"]
    /\ UNCHANGED <<now, pending_orders, workerVars, tableVars, lv, runnerVars,
                   w_requeued, syncVars, running_strategies, threads, h_start, h_notify>>

Start == \E sid \in Strategies : start_strategy(sid)

Stop == \E sid \in Strategies : stop_strategy(sid)

LoopExit == \E t \in DOMAIN threads : Loop_Exit(t)

SetRunning == \E sid \in Strategies : Set_Running(sid)

NextExecutor ==
    \/ Start
    \/ Stop
    \/ LoopExit
    \/ SetRunning

SpecExecutor == InitExecutor /\ [][NextExecutor]_vars

(***************************************************************************)
(* SpecLoop: the head of _run_strategy_loop and stop_strategy              *)
(***************************************************************************)
\* The status test with the persisted status left out.
Mutant_is_strategy_running(status) == TRUE

\* _is_strategy_running: the persisted status is 'running'.
_is_strategy_running(status) == status = "running"

\* The strategy and the thread of the loop.
LoopStrategy == 1
LoopThread == 1

\* The loop of strategy 1 has been started and is at the head of its first
\* iteration; the strategy is flat and its tables are empty.
InitLoop ==
    /\ now = StartTime
    /\ w_pc = [w \in Workers |-> "idle"]
    /\ w_orders = [w \in Workers |-> <<>>]
    /\ w_cur = [w \in Workers |-> 0]
    /\ h_requeues = [i \in OrderIds |-> 0]
    /\ h_dispatches = [i \in OrderIds |-> 0]
    /\ PollIdle
    /\ SyncIdle
    /\ NotifyIdle
    /\ lv = LiveIdle
    /\ cfg \in [execution_mode : ExecutionModes, trade_direction : {"both"}]
    /\ pending_orders = <<>>
    /\ positions = {}
    /\ trades = <<>>
    /\ signal_dedup = {}
    /\ h_origin = <<>>
    /\ r_pc = "check"
    /\ r_tick = NoTick
    /\ r_ticks = 0
    /\ running_strategies = [sid \in Strategies |-> IF sid = LoopStrategy THEN LoopThread ELSE 0]
    /\ threads = <<[strategy_id |-> LoopStrategy, alive |-> TRUE]>>
    /\ strategy_status = [sid \in Strategies |-> "running"]
    /\ h_start = NoStart

\* The head of an iteration: `if not self._is_strategy_running(strategy_id):
\* break`, and after the break the finally block; else on to the tick.
Loop_Check ==
    /\ r_pc = "check"
    /\ IF _is_strategy_running(strategy_status[LoopStrategy])
       THEN /\ r_ticks < MaxTicks
            /\ r_pc' = "idle"
            /\ UNCHANGED <<running_strategies, threads>>
       ELSE /\ r_pc' = "exited"
            /\ threads' = [threads EXCEPT ![LoopThread].alive = FALSE]
            /\ running_strategies' = [running_strategies EXCEPT ![LoopStrategy] = 0]
    /\ UNCHANGED <<now, pending_orders, workerVars, tableVars, lv, cfg, signal_dedup,
                   r_tick, r_ticks, h_origin, w_requeued, syncVars, strategy_status, h_start, h_notify>>

\* What _is_strategy_running tests when its SELECT raises: the bare `except`
\* returns False, as for a status that is not 'running'.
StatusReadError == "exception"

\* The head of an iteration with the status read raising: the loop breaks and
\* runs the finally block, whatever the persisted status is.
Loop_CheckError ==
    /\ r_pc = "check"
    /\ ~_is_strategy_running(StatusReadError)
    /\ r_pc' = "exited"
    /\ threads' = [threads EXCEPT ![LoopThread].alive = FALSE]
    /\ running_strategies' = [running_strategies EXCEPT ![LoopStrategy] = 0]
    /\ UNCHANGED <<now, pending_orders, workerVars, tableVars, lv, cfg, signal_dedup,
                   r_tick, r_ticks, h_origin, w_requeued, syncVars, strategy_status, h_start, h_notify>>

\* The sleep until the next tick is due, then `continue` to the head.
Loop_Sleep ==
    /\ r_pc = "sleep"
    /\ \E k \in SleepTicks : now' = now + k * tick_interval_sec
    /\ r_tick' = NoTick
    /\ r_pc' = "check"
    /\ UNCHANGED <<auxVars, pending_orders, workerVars, tableVars, lv, cfg, signal_dedup,
                   r_ticks, h_origin>>

NextLoop ==
    \/ Loop_Check
    \/ Loop_CheckError
    \/ Runner_Tick
    \/ Runner_Risk
    \/ Runner_Execute
    \/ Loop_Sleep
    \/ Stop

SpecLoop == InitLoop /\ [][NextLoop]_vars

\* The thread of the loop is scheduled as long as it has a step to take.  In
\* this specification Runner_Execute can be taken whenever r_pc = "execute" and
\* is the only step that leaves it, so weak fairness on it is: the loop is
\* again and again not at "execute".
SpecLoopFair ==
    /\ SpecLoop
    /\ WF_vars(Loop_Check)
    /\ WF_vars(Runner_Tick)
    /\ WF_vars(Runner_Risk)
    /\ []<>(r_pc # "execute")
    /\ WF_vars(Loop_Sleep)

(***************************************************************************)
(* SpecRisk: the server-side exits of a tick, on any trading_config        *)
(***************************************************************************)
\* Percentages of trading_config are carried in thousandths (20 is 0.02,
\* 2000 is 2.0); ratios are carried in units of 1 / RatioDen.
RiskScale == 1000
RatioDen == 100 * RiskScale

RiskEntry == 1000    \* entry price of the position, in tenths of a price unit

RiskPrices == {RiskEntry - 20, RiskEntry - 11, RiskEntry - 10, RiskEntry - 9, RiskEntry,
               RiskEntry + 9, RiskEntry + 10, RiskEntry + 11, RiskEntry + 20}
StopLossPcts == {0, 20, 2000}
TakeProfitPcts == {0, 20}
TrailingStopPcts == {0, 10}
TrailingActivationPcts == {0, 20}
Leverages == {1, 2}

RiskConfigs ==
    [execution_mode : {"signal"}, trade_direction : {"both"},
     enable_server_side_stop_loss : BOOLEAN, stop_loss_pct : StopLossPcts,
     take_profit_pct : TakeProfitPcts, trailing_enabled : BOOLEAN,
     trailing_stop_pct : TrailingStopPcts,
     trailing_activation_pct : TrailingActivationPcts, leverage : Leverages]

RiskSignal(type, t, reason) ==
    [type |-> type, timestamp |-> CandleTs(t), trigger_price |-> 0,
     position_size |-> 0, reason |-> reason]

\* _to_ratio: above 1.0 the value is a percentage; clamped to [0, 1].
ToRatio(v) ==
    LET x == IF v > RiskScale THEN v ELSE v * 100
    IN IF x < 0 THEN 0 ELSE IF x > RatioDen THEN RatioDen ELSE x

\* sl of _server_side_stop_loss_signal: above 1 the value is a percentage.
StopLossRatio(stop_loss_pct) ==
    IF stop_loss_pct > RiskScale THEN stop_loss_pct ELSE stop_loss_pct * 100

\* The stop line with the leverage left out.
Mutant_AtOrBelowLine(price, base, ratio, lev) ==
    price * RatioDen <= base * (RatioDen - ratio)

\* price <= base * (1 - ratio / lev)
AtOrBelowLine(price, base, ratio, lev) ==
    price * RatioDen * lev <= base * (RatioDen * lev - ratio)

\* price >= base * (1 + ratio / lev)
AtOrAboveLine(price, base, ratio, lev) ==
    price * RatioDen * lev >= base * (RatioDen * lev + ratio)

\* _server_side_stop_loss_signal on the position list it read.
StopLossSignal(plist, current_price, t, config) ==
    IF ~config.enable_server_side_stop_loss \/ plist = <<>> THEN <<>>
    ELSE LET pos == plist[1]
             sl == StopLossRatio(config.stop_loss_pct)
             lev == Max(1, config.leverage)
         IN IF pos.entry_price <= 0 \/ current_price <= 0 \/ sl <= 0 THEN <<>>
            ELSE IF pos.side = "long"
                    /\ AtOrBelowLine(current_price, pos.entry_price, sl, lev)
            THEN <<RiskSignal("close_long", t, "server_stop_loss")>>
            ELSE IF pos.side = "short"
                    /\ AtOrAboveLine(current_price, pos.entry_price, sl, lev)
            THEN <<RiskSignal("close_short", t, "server_stop_loss")>>
            ELSE <<>>

\* The conflict rule left out.
Mutant_FixedTakeProfit(tp, trailing_on) == tp

\* tp_eff: `if trailing_enabled and trailing_pct_eff > 0: tp_eff = 0.0`.
FixedTakeProfit(tp, trailing_on) == IF trailing_on THEN 0 ELSE tp

\* _server_side_take_profit_or_trailing_signal on the row it read: the tracked
\* highest and lowest price it upserts, and its signal.
TakeProfitOrTrailingSignal(pos, current_price, t, config) ==
    LET lev == Max(1, config.leverage)
        tp == ToRatio(config.take_profit_pct)
        trailing_pct == ToRatio(config.trailing_stop_pct)
        trailing_act == ToRatio(config.trailing_activation_pct)
        trailing_on == config.trailing_enabled /\ trailing_pct > 0
        tp_eff == FixedTakeProfit(tp, trailing_on)
        act == IF trailing_on /\ trailing_act <= 0 /\ tp > 0 THEN tp ELSE trailing_act
        hp == Max(IF pos.highest_price <= 0 THEN pos.entry_price ELSE pos.highest_price,
                  current_price)
        lp == Min(IF pos.lowest_price <= 0 THEN pos.entry_price ELSE pos.lowest_price,
                  current_price)
        long == pos.side = "long"
        active == IF act > 0
                  THEN IF long THEN AtOrAboveLine(hp, pos.entry_price, act, lev)
                               ELSE AtOrBelowLine(lp, pos.entry_price, act, lev)
                  ELSE TRUE
        trail == trailing_on /\ active
                    /\ IF long THEN AtOrBelowLine(current_price, hp, trailing_pct, lev)
                               ELSE AtOrAboveLine(current_price, lp, trailing_pct, lev)
        fixed == tp_eff > 0
                    /\ IF long THEN AtOrAboveLine(current_price, pos.entry_price, tp_eff, lev)
                               ELSE AtOrBelowLine(current_price, pos.entry_price, tp_eff, lev)
        type == IF long THEN "close_long" ELSE "close_short"
    IN IF pos.entry_price <= 0 \/ current_price <= 0
       THEN [highest_price |-> pos.highest_price, lowest_price |-> pos.lowest_price,
             signal |-> <<>>]
       ELSE [highest_price |-> hp, lowest_price |-> lp,
             signal |-> IF trail THEN <<RiskSignal(type, t, "server_trailing_stop")>>
                        ELSE IF fixed THEN <<RiskSignal(type, t, "server_take_profit")>>
                        ELSE <<>>]

RiskRow(side) ==
    [side |-> side, size |-> open_position_size, entry_price |-> RiskEntry,
     highest_price |-> 0, lowest_price |-> 0]

\* A strategy with any trading_config, flat or right after its entry.
InitRisk ==
    /\ now = StartTime
    /\ pending_orders = <<>>
    /\ w_pc = [w \in Workers |-> "idle"]
    /\ w_orders = [w \in Workers |-> <<>>]
    /\ w_cur = [w \in Workers |-> 0]
    /\ h_requeues = [i \in OrderIds |-> 0]
    /\ h_dispatches = [i \in OrderIds |-> 0]
    /\ AuxIdle
    /\ lv = LiveIdle
    /\ trades = <<>>
    /\ signal_dedup = {}
    /\ h_origin = <<>>
    /\ r_pc = "idle"
    /\ r_tick = NoTick
    /\ r_ticks = 0
    /\ cfg \in RiskConfigs
    /\ positions \in {{}} \cup {{RiskRow(side)} : side \in Sides}

\* Section 4.1 of a tick at one price: the take-profit/trailing function with
\* its upsert of the tracked prices, then the stop-loss function.
Risk_Tick ==
    /\ r_pc = "idle"
    /\ \E current_price \in RiskPrices, tp_pos \in _get_current_positions(positions) :
          IF tp_pos = <<>>
          THEN /\ positions' = positions
               /\ r_tick' = [NoTick EXCEPT !.price = current_price]
          ELSE LET pos == tp_pos[1]
                   tp == TakeProfitOrTrailingSignal(pos, current_price, now, cfg)
                   row == [pos EXCEPT !.highest_price = tp.highest_price,
                                      !.lowest_price = tp.lowest_price]
               IN /\ positions' = (positions \ {pos}) \cup {row}
                  /\ \E sl_pos \in _get_current_positions((positions \ {pos}) \cup {row}) :
                        r_tick' = [NoTick EXCEPT
                                      !.price = current_price,
                                      !.tp_pos = tp_pos,
                                      !.triggered =
                                          tp.signal \o StopLossSignal(sl_pos, current_price,
                                                                      now, cfg)]
    /\ UNCHANGED <<auxVars, now, pending_orders, workerVars, trades, lv, cfg, signal_dedup,
                   r_pc, r_ticks, h_origin>>

NextRisk == Risk_Tick

SpecRisk == InitRisk /\ [][NextRisk]_vars

(***************************************************************************)
(* SpecTrigger: section 4 of a tick, on any list of pending signals        *)
(***************************************************************************)
TriggerLevel == 100     \* the trigger price of a pending signal
MaxPending == 2         \* signals in pending_signals
MaxTriggerTicks == 2    \* ticks that evaluate the list

TriggerPrices == {TriggerLevel - 1, TriggerLevel, TriggerLevel + 1}

\* The signals the indicator run can have left in pending_signals: any type,
\* on the forming candle, with the candle's close as trigger price (or none).
PendingUniverse ==
    {Signal(ty, CandleTs(StartTime), tp, IndicatorPositionSize(ty)) :
        ty \in SignalTypes, tp \in {0, TriggerLevel}}

PendingLists == IndicatorOutputs(PendingUniverse, MaxPending) \ {<<>>}

TriggerTick(price, triggered, pending, evaluated) ==
    [price |-> price, triggered |-> triggered, tp_pos |-> <<>>, state |-> "flat",
     selected |-> <<>>, pending |-> pending, evaluated |-> evaluated]

InitTrigger ==
    /\ now = StartTime
    /\ pending_orders = <<>>
    /\ w_pc = [w \in Workers |-> "idle"]
    /\ w_orders = [w \in Workers |-> <<>>]
    /\ w_cur = [w \in Workers |-> 0]
    /\ h_requeues = [i \in OrderIds |-> 0]
    /\ h_dispatches = [i \in OrderIds |-> 0]
    /\ AuxIdle
    /\ lv = LiveIdle
    /\ positions = {}
    /\ trades = <<>>
    /\ signal_dedup = {}
    /\ h_origin = <<>>
    /\ cfg = [execution_mode |-> "signal", trade_direction |-> "both"]
    /\ r_pc = "idle"
    /\ r_ticks = 0
    /\ \E pending \in PendingLists : r_tick = TriggerTick(0, <<>>, pending, <<>>)

\* Section 4 of a tick: expired signals are dropped, each remaining signal is
\* tested at the current price, the triggered ones leave pending_signals.
Trigger_Tick ==
    /\ r_pc = "idle"
    /\ r_ticks < MaxTriggerTicks
    /\ \E current_price \in TriggerPrices :
          LET valid(s) == NotExpired(s, now)
              waits(s) == ~IsTriggered(s, current_price)
              valid_signals == FilterSeq(r_tick.pending, valid)
          IN r_tick' = TriggerTick(current_price,
                                   TriggeredSignals(r_tick.pending, current_price, now),
                                   FilterSeq(valid_signals, waits), valid_signals)
    /\ r_ticks' = r_ticks + 1
    /\ now' = now + tick_interval_sec
    /\ UNCHANGED <<auxVars, pending_orders, workerVars, tableVars, lv, cfg, signal_dedup,
                   r_pc, h_origin>>

NextTrigger == Trigger_Tick

SpecTrigger == InitTrigger /\ [][NextTrigger]_vars

(***************************************************************************)
(* Claims on the queue                                                     *)
(***************************************************************************)
\* Workers whose _dispatch_one for row i is running.
Dispatching(i) == {w \in Workers : w_pc[w] = "dispatch" /\ w_cur[w] = i}

C3_ClaimCounts ==
    \A i \in DOMAIN pending_orders :
        /\ pending_orders[i].attempts = h_dispatches[i]
        /\ pending_orders[i].attempts <= h_requeues[i] + 1
        /\ Cardinality(Dispatching(i)) <= h_requeues[i] + 1
        /\ (pending_orders[i].status = "pending" /\ h_requeues[i] = 0)
               => pending_orders[i].attempts = 0

\* The step of worker w is a claim attempt on a row that is not pending.
C3_FailedClaimBy(w) ==
    /\ w_pc[w] = "claim"
    /\ w_orders[w] # <<>>
    /\ w_orders'[w] = Tail(w_orders[w])
    /\ pending_orders[Head(w_orders[w])].status # "pending"

C3_FailedClaimIsNoOp ==
    \A w \in Workers :
        C3_FailedClaimBy(w) =>
            /\ pending_orders' = pending_orders
            /\ h_dispatches' = h_dispatches
            /\ w_cur' = w_cur
            /\ w_pc'[w] # "dispatch"

C4_TerminalIsFinal ==
    [][\A i \in DOMAIN pending_orders :
          pending_orders[i].status \in {"sent", "failed"}
              => pending_orders'[i].status = pending_orders[i].status]_vars

\* The step is the stale-requeue UPDATE / the SELECT of a poll of worker w.
RequeueStep(w) == w_pc[w] = "idle" /\ w_pc'[w] = "select"
SelectStep(w) == w_pc[w] = "select" /\ w_pc'[w] # "select"

\* Row r is 'processing', older than stale_sec at time t, with attempts left.
StaleWithAttemptsLeft(r, t) ==
    /\ r.status = "processing"
    /\ t - r.updated_at > stale_processing_sec
    /\ r.attempts < r.max_attempts

\* The UPDATE of a poll sets back to 'pending' exactly the rows that are stale
\* with attempts left, and no other step of a worker ever turns a 'processing'
\* row into a 'pending' one.
C14_RequeuesExactlyStale ==
    /\ \A w \in Workers : RequeueStep(w) =>
          \A i \in DOMAIN pending_orders :
             IF StaleWithAttemptsLeft(pending_orders[i], now)
             THEN pending_orders'[i].status = "pending" /\ i \in w_requeued'[w]
             ELSE pending_orders'[i] = pending_orders[i] /\ i \notin w_requeued'[w]
    /\ \A i \in DOMAIN pending_orders :
          (pending_orders[i].status = "processing" /\ pending_orders'[i].status = "pending")
              => StaleWithAttemptsLeft(pending_orders[i], now)

InBatch(i, batch) == \E k \in DOMAIN batch : batch[k] = i

\* Every row requeued by the UPDATE of a poll is in the batch of its SELECT.
C14_ReturnedBySamePoll ==
    \A w \in Workers : SelectStep(w) =>
        \A i \in w_requeued[w] : InBatch(i, w_orders'[w])

\* Pending rows with attempts left that ORDER BY priority DESC, id ASC puts before row i.
EligibleBefore(i) ==
    {j \in DOMAIN pending_orders :
        /\ pending_orders[j].status = "pending"
        /\ pending_orders[j].attempts < pending_orders[j].max_attempts
        /\ \/ pending_orders[j].priority > pending_orders[i].priority
           \/ pending_orders[j].priority = pending_orders[i].priority /\ j < i}

\* Every row requeued by the UPDATE of a poll is in the batch of its SELECT,
\* unless another worker has changed its status in between or batch_size
\* eligible rows come before it.
C14_ReturnedUnlessTaken ==
    \A w \in Workers : SelectStep(w) =>
        \A i \in w_requeued[w] :
            \/ InBatch(i, w_orders'[w])
            \/ pending_orders[i].status # "pending"
            \/ Cardinality(EligibleBefore(i)) >= batch_size

\* C14 as stated: stale reclaim: a 'processing' row is set back to 'pending' by
\* a poll exactly when its updated_at is older than stale_sec and attempts <
\* max_attempts, and it is then returned by that poll; a younger row or one
\* with attempts >= max_attempts is never requeued.
C14_StaleReclaim == [][C14_RequeuesExactlyStale /\ C14_ReturnedBySamePoll]_vars

\* C14 amended: as above, but the requeued row is returned by that poll only
\* if no other worker changes its status between the UPDATE and the SELECT
\* (and fewer than batch_size eligible rows come before it).
C14_StaleReclaimUnlessTaken == [][C14_RequeuesExactlyStale /\ C14_ReturnedUnlessTaken]_vars

\* C14 witness: a worker holds in its batch a row that its poll requeued, after
\* a poll that left alone a 'processing' row with no attempts left.
C14_Witness ==
    \E w \in Workers, i \in DOMAIN pending_orders, j \in DOMAIN pending_orders :
        /\ w_pc[w] = "claim"
        /\ InBatch(i, w_orders[w])
        /\ h_requeues[i] = 1
        /\ pending_orders[i].status = "pending"
        /\ pending_orders[i].updated_at = now
        /\ pending_orders[j].status = "processing"
        /\ pending_orders[j].attempts >= pending_orders[j].max_attempts
        /\ now - pending_orders[j].updated_at > stale_processing_sec
        /\ h_requeues[j] = 0

\* Worker w starts _dispatch_one on the row it has just claimed.
DispatchStart(w) == w_pc[w] = "claim" /\ w_pc'[w] = "dispatch"

\* Row i goes before row j under priority descending, then id ascending.
GoesBefore(i, j) ==
    \/ pending_orders[i].priority > pending_orders[j].priority
    \/ pending_orders[i].priority = pending_orders[j].priority /\ i < j

\* The rows a SELECT finds eligible: pending, with attempts left.
EligibleIds ==
    {i \in DOMAIN pending_orders :
        /\ pending_orders[i].status = "pending"
        /\ pending_orders[i].attempts < pending_orders[i].max_attempts}

\* The batch of a poll holds the eligible rows (the first batch_size of them),
\* by priority descending, then id ascending.
C15_BatchIsOrdered ==
    \A w \in Workers : SelectStep(w) =>
        LET b == w_orders'[w]
        IN /\ \A k \in DOMAIN b : b[k] \in EligibleIds
           /\ Len(b) = Min(Cardinality(EligibleIds), batch_size)
           /\ \A k1 \in DOMAIN b, k2 \in DOMAIN b : k1 < k2 => GoesBefore(b[k1], b[k2])
           /\ \A i \in EligibleIds : InBatch(i, b) \/ \A k \in DOMAIN b : GoesBefore(b[k], i)

\* When a worker starts a dispatch, every order of the same poll that it has
\* not visited yet goes after the dispatched one.
C15_DispatchInOrder ==
    \A w \in Workers : DispatchStart(w) =>
        \A k \in DOMAIN w_orders'[w] : GoesBefore(w_cur'[w], w_orders'[w][k])

\* C15: dispatch order: among the pending orders eligible in a poll, the Worker
\* claims and dispatches by priority descending, then id ascending; no order is
\* dispatched before another eligible order of the same poll that has a higher
\* priority, or an equal priority and a smaller id.
C15_DispatchOrder == [][C15_BatchIsOrdered /\ C15_DispatchInOrder]_vars

\* C15 witness: a worker dispatches the row of higher priority and larger id
\* while the row of lower priority and smaller id of the same poll still waits.
C15_Witness ==
    \E w \in Workers :
        /\ w_pc[w] = "dispatch"
        /\ w_cur[w] = 2
        /\ w_orders[w] = <<1>>
        /\ pending_orders[2].priority > pending_orders[1].priority
        /\ pending_orders[1].status = "pending"
        /\ h_dispatches[1] = 0

\* The step ends the signal-mode _dispatch_one of worker w.
SignalDispatchEnd(w) ==
    /\ w_pc[w] = "dispatch"
    /\ w_pc'[w] # "dispatch"
    /\ pending_orders[w_cur[w]].execution_mode = "signal"

C27_MarkFollowsResults ==
    \A w \in Workers :
        SignalDispatchEnd(w) =>
            LET results == h_notify'.results
                some_ok == \E c \in DOMAIN results : results[c]
                status == pending_orders'[w_cur[w]].status
            IN /\ h_notify'.id = w_cur[w]
               /\ (status = "sent") <=> some_ok
               /\ ~some_ok => status = "failed"

\* C27: signal-mode dispatch: after the Notifier returned its per-channel
\* results, the order is marked 'sent' if and only if at least one channel
\* reports ok, and 'failed' when no channel succeeds, also when no channel was
\* attempted.
C27_SentIffChannelOk == [][C27_MarkFollowsResults]_vars

\* C27 witness: one channel reported ok and the other failed, and the order is
\* 'sent'; the other order was dispatched with no channel attempted before and
\* is 'failed'.
C27_Witness ==
    /\ h_notify.id # 0
    /\ DOMAIN h_notify.results = Channels
    /\ \E c \in Channels : h_notify.results[c]
    /\ \E c \in Channels : ~h_notify.results[c]
    /\ pending_orders[h_notify.id].status = "sent"
    /\ \E i \in DOMAIN pending_orders :
          /\ i # h_notify.id
          /\ pending_orders[i].execution_mode = "signal"
          /\ pending_orders[i].status = "failed"

\* C39: an order enqueued with execution_mode 'signal' is only ever dispatched
\* to the Notifier: no dispatch of it runs _execute_live_order (exchange client,
\* order at a venue), whatever the strategy's configuration at dispatch time.
C39_SignalRowsNeverLive ==
    [][\A w \in Workers :
          Worker_DispatchLive(w)
              => pending_orders[w_cur[w]].execution_mode = "live"]_vars

\* C40: start and stop of the PendingOrderWorker: at most one worker thread is
\* alive per instance, and whenever start() returned True and stop() was not
\* called since, the worker thread is alive with the stop flag cleared, also
\* when start() is called right after a stop() whose join timed out.
C40_StartedWorkerPolls ==
    /\ Cardinality(lv.alive) <= 1
    /\ lv.started => (lv._thread \in lv.alive /\ ~lv._stop_event)

\* C37: queue liveness: under fair scheduling of the worker loop every order
\* inserted as 'pending' eventually reaches 'sent' or 'failed'; it does not
\* stay 'pending' or 'processing' for ever, also when a worker crashes after
\* claiming it.
C37_EveryOrderEnds ==
    \A i \in OrderIds :
        (i \in DOMAIN pending_orders /\ pending_orders[i].status = "pending")
            ~> (i \in DOMAIN pending_orders
                   /\ pending_orders[i].status \in {"sent", "failed"})

(***************************************************************************)
(* Claims on the reconciliation                                            *)
(***************************************************************************)
\* The step is a reconciliation run.
SyncRunStep == h_sync'.tick # h_sync.tick

\* The strategy is live on a venue whose positions the run snapshots.
LiveOnSupportedVenue ==
    cfg.execution_mode = "live" /\ exch.venue \in {"crypto_swap", "mt5"}

\* C16: reconciliation rule: for each local row of a live strategy on a
\* supported venue, a run that read the venue's positions deletes the row when
\* the snapshot shows no position for its side, sets its size to the exchange
\* quantity when |exch - local| / max(1, local) > 1%, and leaves it untouched
\* otherwise.
C16_ReconciliationRule ==
    [][(SyncRunStep /\ LiveOnSupportedVenue /\ h_sync'.resp = "list") =>
          \A r \in positions :
             IF exch.qty[r.side] = 0
             THEN RowsOfSide(positions', r.side) = {}
             ELSE IF 100 * Abs(exch.qty[r.side] - r.size) > Max(1, r.size)
                  THEN RowsOfSide(positions', r.side)
                          = {[r EXCEPT !.size = exch.qty[r.side]]}
                  ELSE r \in positions']_vars

\* The sides that have a row (one row id per strategy, symbol and side).
RowKeys(rows) == {r.side : r \in rows}

\* C17: reconciliation never creates a local row: the rows after a run are a
\* subset, by row id, of the rows before it, also when the venue holds a
\* position that has no local row.
C17_NeverCreates == [][SyncRunStep => RowKeys(positions') \subseteq RowKeys(positions)]_vars

\* C17 witness: a run has reconciled the rows of a live strategy while the
\* venue holds a long position that has no local row.
C17_Witness ==
    /\ h_sync.settled
    /\ cfg.execution_mode = "live"
    /\ exch.venue = "mt5"
    /\ h_sync.deletes + h_sync.updates > 0
    /\ exch.qty["long"] > 0
    /\ RowsOfSide(positions, "long") = {}
    /\ RowsOfSide(positions, "short") # {}

\* C18: reconciliation is idempotent: a run that follows a run on the same
\* snapshot, with no other writer in between, deletes and updates nothing.
C18_Idempotent ==
    [][(SyncRunStep /\ h_sync.settled /\ h_sync'.resp = "list") =>
          /\ h_sync'.deletes = 0
          /\ h_sync'.updates = 0
          /\ positions' = positions]_vars

\* C18 witness: the second of two runs on the same snapshot, after a first run
\* that wrote.
C18_Witness ==
    /\ h_sync.repeat
    /\ h_sync.prev_writes > 0
    /\ cfg.execution_mode = "live"
    /\ exch.venue = "mt5"
    /\ positions # {}

\* C19: when reading the venue's positions fails (an exception, or an error or
\* malformed response instead of the position list), the run deletes and
\* updates no local row.
C19_ReadErrorSkips ==
    [][(SyncRunStep /\ h_sync'.resp \in {"exception", "malformed"}) =>
          /\ positions' = positions
          /\ h_sync'.deletes = 0
          /\ h_sync'.updates = 0]_vars

(***************************************************************************)
(* Claims on the executor                                                  *)
(***************************************************************************)
\* The step is a start_strategy call.
StartStep == h_start'.tick # h_start.tick

C20_LiveLoopsWithinCap == Cardinality(LiveLoops) <= MaxThreads

C20_StartAtCapRefused ==
    (StartStep /\ Cardinality(LiveLoops) >= MaxThreads) =>
        /\ h_start'.result = FALSE
        /\ threads' = threads

\* C20: the number of concurrently live Runner loops never exceeds the cap
\* STRATEGY_MAX_THREADS, for any interleaving of start_strategy and
\* stop_strategy; a start_strategy call made when the cap is reached returns
\* False and launches no loop.
C20_LiveLoopsCapped == [](C20_LiveLoopsWithinCap) /\ [][C20_StartAtCapRefused]_vars

\* The live loops of one strategy.
LoopsOf(sid) == {t \in LiveLoops : threads[t].strategy_id = sid}

C21_OneLoopPerStrategy == \A sid \in Strategies : Cardinality(LoopsOf(sid)) <= 1

\* A loop that exits leaves the handle of another thread in place.
C21_ExitKeepsNewerHandle ==
    \A t \in DOMAIN threads :
        (is_alive(t) /\ ~threads'[t].alive
            /\ running_strategies[threads[t].strategy_id] # t) =>
           running_strategies'[threads[t].strategy_id]
              = running_strategies[threads[t].strategy_id]

\* C21: at any time at most one Runner loop is live per strategy_id, also
\* across a stop_strategy followed by a restart before the old loop has
\* observed the stop; and a loop that exits never removes the handle of a
\* newer loop of the same strategy.
C21_SingleRunner == [](C21_OneLoopPerStrategy) /\ [][C21_ExitKeepsNewerHandle]_vars

LoopStopped == strategy_status[LoopStrategy] = "stopped"

LoopExited == r_pc = "exited"

\* Once the loop has left through the status test it starts no tick and
\* enqueues nothing.
C22_NoTickAfterExit ==
    LoopExited =>
        /\ r_pc' = "exited"
        /\ r_ticks' = r_ticks
        /\ pending_orders' = pending_orders

\* A tick starts only from a status test that read 'running'.
C22_TickStartsFromRunning ==
    (r_pc = "check" /\ r_pc' = "idle") => strategy_status[LoopStrategy] = "running"

\* C22: after stop_strategy has set the persisted status to 'stopped' (and it
\* is not set back), the Runner loop observes it at the head of its next
\* iteration and eventually exits; it starts no new tick after that test and
\* enqueues no order from a tick begun after the stop was observed.
C22_StopIsObserved ==
    /\ (LoopStopped ~> LoopExited)
    /\ [][C22_NoTickAfterExit /\ C22_TickStartsFromRunning]_vars

\* C22 witness: the loop has run a tick that enqueued an order, the strategy
\* was stopped, and the loop has exited.
C22_Witness ==
    /\ LoopExited
    /\ LoopStopped
    /\ r_ticks >= 1
    /\ pending_orders # <<>>
    /\ ~is_alive(LoopThread)

\* C38: once its main loop is running, a Runner loop terminates only when the
\* persisted status of its strategy is not 'running': a failed status read, a
\* failed price fetch or an exception inside a tick never ends the loop while
\* the persisted status is still 'running'.
C38_ExitsOnlyWhenNotRunning ==
    [][(~LoopExited /\ r_pc' = "exited")
          => strategy_status[LoopStrategy] # "running"]_vars

(***************************************************************************)
(* Claims on the server-side exits                                         *)
(***************************************************************************)
\* The tick of SpecRisk has run on a position.
RiskTicked == r_tick.price > 0 /\ r_tick.tp_pos # <<>>

\* The tick emitted a signal of the type with the reason.
Emitted(type, reason) ==
    \E i \in DOMAIN r_tick.triggered :
        /\ r_tick.triggered[i].type = type
        /\ r_tick.triggered[i].reason = reason

EmittedReason(reason) ==
    \E i \in DOMAIN r_tick.triggered : r_tick.triggered[i].reason = reason

\* The stop-loss rule with sl, a number of thousandths over the denominator
\* den, as the stop-loss ratio.
StopLossRule(sl, den) ==
    LET pos == r_tick.tp_pos[1]
        P == r_tick.price
        E == pos.entry_price
        L == cfg.leverage
    IN (RiskTicked /\ cfg.enable_server_side_stop_loss) =>
          /\ (sl > 0 /\ pos.side = "long") =>
                 (Emitted("close_long", "server_stop_loss")
                     <=> P * den * L <= E * (den * L - sl))
          /\ (sl > 0 /\ pos.side = "short") =>
                 (Emitted("close_short", "server_stop_loss")
                     <=> P * den * L >= E * (den * L + sl))
          /\ sl <= 0 => ~EmittedReason("server_stop_loss")

\* C23: with stop-loss enabled, for a long position with entry E, stop_loss_pct
\* sl > 0 and leverage L, a tick at price P emits close_long with reason
\* server_stop_loss exactly when P <= E * (1 - sl / L), symmetrically
\* close_short when P >= E * (1 + sl / L) for a short; with sl <= 0 no
\* stop-loss signal is emitted.
C23_StopLossAtConfiguredPct == StopLossRule(cfg.stop_loss_pct, RiskScale)

\* C23 as the code has it: sl is stop_loss_pct read as a ratio, a configured
\* value above 1 being a percentage (divided by 100).
C23_StopLossAtRatio ==
    IF cfg.stop_loss_pct > RiskScale
    THEN StopLossRule(cfg.stop_loss_pct, 100 * RiskScale)
    ELSE StopLossRule(cfg.stop_loss_pct, RiskScale)

\* C23 witness: entry 100, stop_loss_pct 0.02, leverage 2, price 98.9: the
\* tick emitted close_long with reason server_stop_loss.
C23_Witness ==
    /\ RiskTicked
    /\ r_tick.tp_pos[1].side = "long"
    /\ r_tick.tp_pos[1].entry_price = RiskEntry
    /\ cfg.stop_loss_pct = 20
    /\ cfg.leverage = 2
    /\ r_tick.price = RiskEntry - 11
    /\ Emitted("close_long", "server_stop_loss")

\* C24: trailing and fixed take-profit are mutually exclusive: whenever
\* trailing is enabled and trailing_stop_pct > 0, no signal with reason
\* server_take_profit is emitted, whatever the price and take_profit_pct;
\* take_profit_pct then only serves as the trailing activation threshold when
\* no activation percentage is configured.
C24_TrailingExcludesFixed ==
    (RiskTicked /\ cfg.trailing_enabled /\ cfg.trailing_stop_pct > 0) =>
        /\ ~EmittedReason("server_take_profit")
        /\ LET pos == r_tick.tp_pos[1]
               out(config) == TakeProfitOrTrailingSignal(pos, r_tick.price, now, config).signal
               mine == out(cfg)
           IN IF cfg.trailing_activation_pct > 0
              THEN \A tp \in TakeProfitPcts :
                      out([cfg EXCEPT !.take_profit_pct = tp]) = mine
              ELSE out([cfg EXCEPT !.trailing_activation_pct = cfg.take_profit_pct,
                                   !.take_profit_pct = 0]) = mine

\* C24 witness: trailing is enabled with trailing_stop_pct > 0, take_profit_pct
\* is set, and a tick ran on a long position at a price at or above the
\* take-profit line of the entry.
C24_Witness ==
    /\ RiskTicked
    /\ cfg.trailing_enabled
    /\ cfg.trailing_stop_pct > 0
    /\ cfg.take_profit_pct > 0
    /\ r_tick.tp_pos[1].side = "long"
    /\ AtOrAboveLine(r_tick.price, RiskEntry, ToRatio(cfg.take_profit_pct), Max(1, cfg.leverage))
    /\ ~EmittedReason("server_take_profit")

(***************************************************************************)
(* Claims on the trigger test                                              *)
(***************************************************************************)
\* The tick of SpecTrigger has evaluated signals.
TriggerTicked == r_tick.price > 0

InSeq(x, seq) == \E i \in DOMAIN seq : seq[i] = x

EvaluatedSignals == {r_tick.evaluated[i] : i \in DOMAIN r_tick.evaluated}

\* C25: with the default exit_trigger_mode = immediate, every pending
\* close_long, close_short, reduce_long and reduce_short signal is triggered on
\* the tick in which it is evaluated, whatever the relation between the
\* current price and the signal's trigger price.
C25_ExitsFireImmediately ==
    TriggerTicked =>
        \A s \in EvaluatedSignals :
            s.type \in {"close_long", "close_short", "reduce_long", "reduce_short"}
                => InSeq(s, r_tick.triggered)

\* The price test of an entry signal with a trigger price.
EntryPriceReached(s, price) ==
    IF s.type \in {"open_long", "add_long"} THEN price >= s.trigger_price
    ELSE price <= s.trigger_price

\* C26: with the default entry_trigger_mode = price, an open_long or add_long
\* signal with trigger price T > 0 is triggered on a tick only if the current
\* price is >= T, an open_short or add_short signal only if it is <= T; until
\* then the signal is not executed and stays pending.
C26_EntriesWaitForPrice ==
    TriggerTicked =>
        \A s \in EvaluatedSignals :
            (s.type \in {"open_long", "add_long", "open_short", "add_short"}
                /\ s.trigger_price > 0) =>
               /\ InSeq(s, r_tick.triggered) => EntryPriceReached(s, r_tick.price)
               /\ ~EntryPriceReached(s, r_tick.price) =>
                     (~InSeq(s, r_tick.triggered) /\ InSeq(s, r_tick.pending))

\* C26 witness: an open_long signal that stayed pending on a tick below its
\* trigger price is triggered on the next tick, at a price that reached it.
C26_Witness ==
    /\ r_ticks = 2
    /\ r_tick.price >= TriggerLevel
    /\ \E s \in EvaluatedSignals :
          /\ s.type = "open_long"
          /\ s.trigger_price = TriggerLevel
          /\ InSeq(s, r_tick.triggered)

\* C34: reconciliation only touches live strategies: a run never deletes or
\* updates a position row of a strategy whose execution_mode is not 'live'.
C34_OnlyLiveReconciled ==
    [][(SyncRunStep /\ cfg.execution_mode # "live")
          => /\ positions' = positions
             /\ h_sync'.deletes = 0
             /\ h_sync'.updates = 0]_vars

\* C34 witness: a run read the positions of the MT5 venue of a signal-mode
\* strategy; the venue is flat on a side that has a local row, and the row is
\* still there.
C34_Witness ==
    /\ cfg.execution_mode = "signal"
    /\ exch.venue = "mt5"
    /\ h_sync.resp = "list"
    /\ h_sync.settled
    /\ \E r \in positions : exch.qty[r.side] = 0

(***************************************************************************)
(* Claims on the live order                                                *)
(***************************************************************************)
\* The order of SpecLive has ended after a failed market phase.
MarketPhaseFailed == lv.pc = "done" /\ lv.market_error # "none"

\* The combinations the guardrails reject, as the specification lists them.
RejectedCombination(exchange_id, market_category) ==
    \/ market_category = "AShare"
    \/ market_category = "Futures"
    \/ exchange_id = "ibkr" /\ market_category # "USStock" /\ market_category # "HShare"
    \/ exchange_id = "mt5" /\ market_category # "Forex"
    \/ exchange_id \in crypto_exchanges /\ market_category # "Crypto"

\* C30: market-category guardrails: a live order is marked 'failed', no
\* exchange client is created and no order is placed, when the category is
\* AShare or Futures, or the venue is ibkr with a category other than USStock and
\* HShare, or mt5 with a category other than Forex, or a crypto venue with a
\* category other than Crypto.
C30_GuardrailsReject ==
    (lv.pc # "validate" /\ RejectedCombination(lv.exchange_id, lv.market_category))
    => /\ pending_orders[lv.order_id].status = "failed"
       /\ ~lv.client
       /\ ~lv.placed

\* C30 witness: the order of a strategy on a crypto venue with category USStock
\* has been through the guardrails and is 'failed'.
C30_Witness ==
    /\ lv.pc = "done"
    /\ lv.exchange_id = "binance"
    /\ lv.market_category = "USStock"
    /\ lv.error = "crypto_exchange_only_supports_crypto"
    /\ pending_orders[lv.order_id].status = "failed"

\* C32: reduce-only: on every futures/swap venue the limit and the market order
\* submitted for a close_* or reduce_* signal carry reduce_only = true and
\* those for open_* and add_* carry reduce_only = false.
C32_ExitOrdersReduceOnly ==
    lv.market_type = "swap" =>
        \A i \in DOMAIN lv.submitted :
            lv.submitted[i].reduce_only
                = (lv.signal_type \in {"close_long", "close_short",
                                       "reduce_long", "reduce_short"})

\* C33: client order ids are deterministic per (strategy_id, pending_order_id,
\* phase): the same triple always gives the same id, two different triples
\* never give the same id on the same venue, and an OKX id is alphanumeric and
\* at most 32 characters long.
C33_OidPerTriple ==
    lv.pc = "done" =>
        /\ lv.a = lv.b => lv.oid_a = lv.oid_b
        /\ lv.a # lv.b => lv.oid_a # lv.oid_b
        /\ lv.exchange_id = "okx" =>
              /\ Len(lv.oid_a) <= 32
              /\ \A i \in DOMAIN lv.oid_a : lv.oid_a[i] # "_"

\* The step ends the maker phase with the limit order placed and not fully
\* filled: the wait ended short of the amount, or the phase raised after the
\* order was placed.
MakerEndsUnfilled ==
    /\ lv.pc = "maker"
    /\ lv'.pc = "market"
    /\ \/ lv'.limit_error = "none" /\ lv'.limit_filled < lv.amount
       \/ lv'.limit_error # "none" /\ lv'.limit_resting > 0

\* C35: whenever the maker limit order is not fully filled when the maker wait
\* ends (also with a tiny remainder, with the remainder dropped by the OKX tail
\* guard, and when the phase aborts with an error after the order was placed),
\* a cancel of the limit order is attempted before any market order is
\* submitted and before the pending order is settled.
C35_CancelAttempted == [][MakerEndsUnfilled => lv'.limit_cancel]_vars

\* The dispatch of the order ended in the error the market phase raised.
DispatchEndedInError ==
    /\ MarketPhaseFailed
    /\ _market_error_outcome(lv.market_error, lv.total_base) = "failed"

\* C29: a pending order whose dispatch failed with an error raised by the venue
\* call (network or HTTP timeout, rate limit) is retried by the queue: while
\* attempts < max_attempts the next poll fetches it again, it has not ended
\* 'failed' on the first error.
C29_ErrorIsRetried ==
    (DispatchEndedInError
        /\ pending_orders[lv.order_id].attempts < pending_orders[lv.order_id].max_attempts)
    => /\ pending_orders[lv.order_id].status # "failed"
       /\ InSeq(lv.order_id, _fetch_pending_orders(pending_orders, batch_size, now).orders)

\* C9: partial success: when the maker phase filled a quantity > 0 and the
\* market phase then fails, the order ends 'sent' with the maker fill and its
\* average price, and the position is updated by that fill.
C9_PartialSuccess ==
    (MarketPhaseFailed /\ lv.limit_filled > 0) =>
        /\ pending_orders[lv.order_id].status = "sent"
        /\ pending_orders[lv.order_id].filled = lv.limit_filled
        /\ pending_orders[lv.order_id].avg_price
               = _current_avg(lv.total_base, lv.total_quote)
        /\ positions = apply_fill_to_local_position(lv.positions0, lv.signal_type,
                           lv.limit_filled, _current_avg(lv.total_base, lv.total_quote))

\* C10: zero-fill asymmetry: when nothing was filled in the maker phase and the
\* market phase fails, the order ends 'failed' and no position row and no trade
\* row is created or changed.
C10_ZeroFillFails ==
    (MarketPhaseFailed /\ lv.limit_filled = 0) =>
        /\ pending_orders[lv.order_id].status = "failed"
        /\ positions = lv.positions0
        /\ trades = <<>>

\* C10 witness: a maker phase that ran and filled nothing, a market phase that
\* raised LiveTradingError, and the order failed.
C10_Witness ==
    /\ MarketPhaseFailed
    /\ lv.order_mode = "maker"
    /\ lv.limit_error = "none"
    /\ lv.limit_filled = 0
    /\ lv.market_error = "LiveTradingError"
    /\ lv.ref_price > 0
    /\ pending_orders[lv.order_id].status = "failed"

\* _execute_live_order has returned.
LiveDone == lv.pc = "done"

\* C11: settlement happens only for real fills: when the order has ended, the
\* position was changed or a trade row was appended only if the venue reported
\* a filled quantity > 0 in the maker or the market phase, and the filled and
\* avg_price written to the queue row and to the trade row are the quantity and
\* the quantity-weighted average price accumulated from the fill reports.
C11_SettlesRealFillsOnly ==
    LiveDone =>
        /\ (trades # <<>> \/ positions # lv.positions0) => lv.reported > 0
        /\ pending_orders[lv.order_id].status = "sent" =>
               /\ pending_orders[lv.order_id].filled = lv.total_base
               /\ pending_orders[lv.order_id].avg_price
                      = _current_avg(lv.total_base, lv.total_quote)
        /\ trades # <<>> =>
               /\ trades[1].amount = lv.total_base
               /\ trades[1].price = _current_avg(lv.total_base, lv.total_quote)

\* The maker phase of an OKX swap order ended with a fill report.
OkxMakerPhaseEnded ==
    /\ lv.pc \in {"final", "done"}
    /\ lv.okx_swap
    /\ UseLimitFirst(lv.order_mode)
    /\ lv.amount > 0
    /\ lv.limit_error = "none"

\* C12: OKX tail guard: for an OKX swap order, whenever the base quantity
\* remaining after the maker phase is below minSz x ctVal (MinBase), no market
\* order is submitted for the pending order.
C12_TailGuardNoMarket ==
    (OkxMakerPhaseEnded /\ lv.amount - lv.limit_filled < MinBase) => lv.market_placed = 0

\* C13: maker-then-market quantities: a market order is submitted only for a
\* remainder > 0, its quantity is the order amount minus the quantity filled in
\* the maker phase, no market order follows a maker order that filled the full
\* amount, and the total quantity the venue fills for the pending order never
\* exceeds its amount.
C13_MarketForRemainder ==
    lv.pc \in {"final", "done"} =>
        /\ lv.market_placed > 0 => lv.market_placed = lv.amount - lv.limit_filled
        /\ lv.limit_filled = lv.amount => lv.market_placed = 0
        /\ lv.venue_filled <= lv.amount

(***************************************************************************)
(* Claims on the Runner                                                    *)
(***************************************************************************)
\* The step is the last part of a tick (Runner_Execute).
ExecuteStep == r_pc = "execute" /\ r_pc' = "sleep"

\* The step is a step of the Runner (every part of a tick moves r_pc).
RunnerStep == r_pc' # r_pc

\* The allowed-transitions table as the specification states it.
TransitionTable(state) ==
    CASE state = "flat" -> {"open_long", "open_short"}
      [] state = "long" -> {"add_long", "reduce_long", "close_long"}
      [] state = "short" -> {"add_short", "reduce_short", "close_short"}

\* ids of the rows a step inserts into pending_orders
InsertedIds == (Len(pending_orders) + 1)..Len(pending_orders')

\* C1: every signal the Runner selects and every order it enqueues in a tick is
\* allowed by the transition table for the state read in that tick; when no
\* triggered signal is allowed by that state, the tick inserts no pending order
\* and leaves the position rows and the trade rows unchanged.
C1_OnlyAllowedSignals ==
    [][ExecuteStep =>
          /\ \A i \in DOMAIN r_tick'.selected :
                r_tick'.selected[i].type \in TransitionTable(r_tick'.state)
          /\ \A i \in InsertedIds :
                /\ pending_orders'[i].signal_type \in TransitionTable(r_tick'.state)
                /\ h_origin'[i].type \in TransitionTable(r_tick'.state)
          /\ (\A i \in DOMAIN r_tick.triggered :
                  r_tick.triggered[i].type \notin TransitionTable(r_tick'.state))
                => /\ pending_orders' = pending_orders
                   /\ positions' = positions
                   /\ trades' = trades]_vars

\* C1 witness: a tick that read the state long had open_long triggered and
\* selected nothing.
C1_Witness ==
    /\ r_pc = "sleep"
    /\ r_tick.state = "long"
    /\ \E i \in DOMAIN r_tick.triggered : r_tick.triggered[i].type = "open_long"
    /\ r_tick.selected = <<>>
    /\ \E p \in positions : p.side = "long"

\* C2: in one tick at most one signal is selected and at most one pending_orders
\* row is inserted, and rows are inserted by the last part of a tick only.
C2_AtMostOnePerTick ==
    [][/\ Len(pending_orders') <= Len(pending_orders) + 1
       /\ Len(pending_orders') > Len(pending_orders) => r_pc = "execute"
       /\ Len(r_tick'.selected) <= 1]_vars

\* C2 witness: a tick with two indicator signals and a server-side exit
\* triggered, at least two of them allowed by the state, that inserted exactly
\* one row.
C2_Witness ==
    /\ r_pc = "sleep"
    /\ Len(r_tick.triggered) >= 3
    /\ \E i \in DOMAIN r_tick.triggered : r_tick.triggered[i].trigger_price = 0
    /\ \E i, j \in DOMAIN r_tick.triggered :
          /\ i # j
          /\ r_tick.triggered[i].type \in TransitionTable(r_tick.state)
          /\ r_tick.triggered[j].type \in TransitionTable(r_tick.state)
          /\ r_tick.triggered[i].type # r_tick.triggered[j].type
    /\ Len(r_tick.selected) = 1
    /\ Cardinality({i \in DOMAIN pending_orders : pending_orders[i].created_at = now}) = 1

\* C5: for a strategy in execution_mode live no step of the Runner changes the
\* position rows or the trade rows, under any interleaving with the Worker.
C5_LiveRunnerLeavesTables ==
    [][(cfg.execution_mode = "live" /\ RunnerStep)
          => positions' = positions /\ trades' = trades]_vars

\* C28: in signal mode the Runner writes a trade row or changes the position
\* only in a tick that enqueued a pending order: when the enqueue is skipped by
\* the DB guard, no trade row is written and the position is unchanged.
C28_FillOnlyAfterEnqueue ==
    [][(cfg.execution_mode = "signal" /\ ExecuteStep
            /\ Len(pending_orders') = Len(pending_orders))
          => positions' = positions /\ trades' = trades]_vars

\* The step is a signal-mode execution that filled an add_* signal locally:
\* the trade row it appended.
AddFilled ==
    /\ cfg.execution_mode = "signal"
    /\ ExecuteStep
    /\ Len(trades') = Len(trades) + 1
    /\ trades'[Len(trades')].type \in {"add_long", "add_short"}

\* entry_price is (s * e + a * p) / (s + a), in the integers of the model.
IsWeightedAverage(entry_price, s, e, a, p) ==
    /\ entry_price * (s + a) <= s * e + a * p
    /\ s * e + a * p < (entry_price + 1) * (s + a)

\* C31: weighted-average entry on add: an add_long fill of quantity a at price
\* p applied to a long position of size s and entry e leaves a long position of
\* size s + a and entry (s * e + a * p) / (s + a); the same for add_short.
C31_WeightedAverageOnAdd ==
    [][AddFilled =>
          LET fill == trades'[Len(trades')]
              side == IF fill.type = "add_long" THEN "long" ELSE "short"
          IN \A old \in positions :
                old.side = side =>
                    \E new \in positions' :
                        /\ new.side = side
                        /\ new.size = old.size + fill.amount
                        /\ IsWeightedAverage(new.entry_price, old.size, old.entry_price,
                                             fill.amount, fill.price)
                        /\ \A r \in positions' : r.side = side => r = new]_vars

\* C31 witness: an add_long was filled at a price other than the entry price of
\* the position, and the entry price of the row lies between the two prices.
C31_Witness ==
    /\ cfg.execution_mode = "signal"
    /\ trades # <<>>
    /\ trades[Len(trades)].type = "add_long"
    /\ \E r \in positions :
          /\ r.side = "long"
          /\ r.size > trades[Len(trades)].amount
          /\ r.entry_price > BasePrice
          /\ r.entry_price < BasePrice + PriceStep

\* The rows of a signal type that are in flight.
InFlight(signal_type) ==
    {i \in DOMAIN pending_orders :
        /\ pending_orders[i].signal_type = signal_type
        /\ pending_orders[i].status \in {"pending", "processing"}}

\* C36: for the strategy and symbol, at most one pending_orders row of a signal
\* type is 'pending' or 'processing' at any time: a second open_* order is
\* never enqueued while an earlier one is in flight.
C36_OneInFlightPerType ==
    \A signal_type \in SignalTypes : Cardinality(InFlight(signal_type)) <= 1

\* C6: there is at most one position row for the strategy+symbol.
C6_AtMostOneRow == Cardinality(positions) <= 1

\* rows of pending_orders that came from the signal with the de-dup key (type, ts)
OrdersOfKey(type, ts) ==
    {i \in DOMAIN h_origin : h_origin[i].type = type /\ h_origin[i].ts = ts}

\* The de-dup key of signal s is reserved and not expired.
Reserved(s) ==
    \E e \in signal_dedup : e.type = s.type /\ e.ts = s.timestamp /\ e.exp > now

\* Signals triggered in the running tick whose key an earlier tick reserved:
\* the signals triggered on several ticks.
Retriggered ==
    IF r_pc = "execute"
    THEN {r_tick.triggered[i] : i \in {j \in DOMAIN r_tick.triggered :
                                          Reserved(r_tick.triggered[j])}}
    ELSE {}

\* C7 as stated: a signal that is triggered again within the de-dup window has
\* exactly one pending order.
C7_ExactlyOneOrder ==
    \A s \in Retriggered : Cardinality(OrdersOfKey(s.type, s.timestamp)) = 1

\* C7 amended: no two pending orders come from the same de-dup key
\* (signal_type, signal_ts): at most one order is enqueued per signal, on
\* however many ticks it is triggered.
C7_AtMostOneOrder ==
    \A i, j \in DOMAIN h_origin : h_origin[i] = h_origin[j] => i = j

\* C7 witness: a tick ended in which a signal allowed by the state was triggered
\* again, its key reserved by an earlier tick, and its one order is the one that
\* earlier tick enqueued.
C7_Witness ==
    /\ r_pc = "sleep"
    /\ \E i \in DOMAIN r_tick.triggered :
          LET s == r_tick.triggered[i]
          IN /\ s.type \in TransitionTable(r_tick.state)
             /\ \E e \in signal_dedup :
                   /\ e.type = s.type /\ e.ts = s.timestamp
                   /\ e.exp > now
                   /\ e.exp < now + Max(TimeframeSec * 2, dedup_min_ttl_sec)
             /\ Cardinality(OrdersOfKey(s.type, s.timestamp)) = 1
             /\ \A j \in OrdersOfKey(s.type, s.timestamp) : pending_orders[j].created_at < now

\* The order of the claim: priority close_* < reduce_* < open_* < add_*, then the
\* earlier timestamp, then the type in lexicographic order.
C8_Priority(signal_type) ==
    CASE signal_type \in {"close_long", "close_short"} -> 0
      [] signal_type \in {"reduce_long", "reduce_short"} -> 1
      [] signal_type \in {"open_long", "open_short"} -> 2
      [] signal_type \in {"add_long", "add_short"} -> 3

C8_Before(a, b) ==
    \/ C8_Priority(a.type) < C8_Priority(b.type)
    \/ C8_Priority(a.type) = C8_Priority(b.type) /\ a.timestamp < b.timestamp
    \/ /\ C8_Priority(a.type) = C8_Priority(b.type)
       /\ a.timestamp = b.timestamp
       /\ StrRank(a.type) < StrRank(b.type)

\* The triggered signals of the tick that the state allows and the de-dup does
\* not suppress.
Unsuppressed(state) ==
    {r_tick.triggered[i] : i \in {j \in DOMAIN r_tick.triggered :
        /\ r_tick.triggered[j].type \in TransitionTable(state)
        /\ ~Reserved(r_tick.triggered[j])}}

\* Signal s passes the trade-direction filter applied in the flat state.
InDirection(s, state) ==
    \/ state # "flat"
    \/ cfg.trade_direction = "both"
    \/ cfg.trade_direction = "long" /\ s.type = "open_long"
    \/ cfg.trade_direction = "short" /\ s.type = "open_short"

\* sel is None when the pool is empty, else a least signal of the pool.
IsMinimumOf(sel, pool) ==
    IF pool = {} THEN sel = <<>>
    ELSE /\ Len(sel) = 1
         /\ sel[1] \in pool
         /\ \A s \in pool : ~C8_Before(s, sel[1])

\* The triggered signals of the tick that the state allows, by position.
AllowedTriggered(state) ==
    {i \in DOMAIN r_tick.triggered : r_tick.triggered[i].type \in TransitionTable(state)}

\* C8 as stated: when several triggered signals are allowed by the state, the
\* selected signal is the minimum, under the order, of those the de-dup does not
\* suppress.
C8_SelectsMinimum ==
    [][(ExecuteStep /\ Cardinality(AllowedTriggered(r_tick'.state)) >= 2)
          => IsMinimumOf(r_tick'.selected, Unsuppressed(r_tick'.state))]_vars

\* C8 amended: the selected signal is the minimum, under the order, of the
\* triggered signals that are allowed by the state, pass the trade-direction
\* filter when the state is flat, and are not suppressed by the de-dup; so a
\* close_* that is not suppressed is chosen before any reduce_* or add_*.
C8_SelectsMinimumInDirection ==
    [][ExecuteStep =>
          IsMinimumOf(r_tick'.selected,
                      {s \in Unsuppressed(r_tick'.state) : InDirection(s, r_tick'.state)})]_vars

\* C8 witness: a tick in the state long with close_long and an unsuppressed
\* add_long triggered has selected the close_long.
C8_Witness ==
    /\ r_pc = "sleep"
    /\ r_tick.state = "long"
    /\ Len(r_tick.selected) = 1
    /\ r_tick.selected[1].type = "close_long"
    /\ \E i \in DOMAIN r_tick.triggered :
          /\ r_tick.triggered[i].type = "add_long"
          /\ ~\E e \in signal_dedup :
                 e.type = "add_long" /\ e.ts = r_tick.triggered[i].timestamp

====
